---- MODULE Spec2Model ----
(***************************************************************************)
(* Model of the crypto ETL pipeline: the checkpoint store                  *)
(* (core/checkpoints.py), the source fetchers (ingestion/sources/*.py),    *)
(* the transformer (ingestion/transformer.py), the loader                  *)
(* (ingestion/loader.py) and the orchestrator (etl_pipeline.py).           *)
(*                                                                         *)
(* Optional values (Python Optional[T]) are sequences of length at most    *)
(* one: None is <<>> and a present value x is <<x>>.                       *)
(***************************************************************************)
EXTENDS Integers, Sequences, FiniteSets, TLC

VARIABLES
    checkpoints,  \* table "checkpoints": sequence of rows, in insertion order
    raw,          \* raw tables, one per source: sequence of rows
    unified,      \* table "unified_crypto_data" as committed: sequence of rows
    clock,        \* wall clock read by datetime.utcnow() and time.time()
    calls,        \* number of top-level calls made so far
    proc          \* per process: position in the code and local variables

vars == <<checkpoints, raw, unified, clock, calls, proc>>

\* ------------------------------------------------------------------ bounds
MaxClock == 1
MaxRuns == 1
MaxBatch == 2
MaxCalls == 2
MaxLoads == 2
MaxLoad == 2
MaxOps == 4
MaxRetry == 8

\* ------------------------------------------------- configuration defaults
\* Delays are in tenths of a second: 1.0 s, 60.0 s and 0.5 s.
max_retries == 3
initial_retry_delay == 10
max_retry_delay == 600
rate_limit_delay == 5

None == <<>>
Some(x) == <<x>>

Procs == {1, 2}

\* The order in which run_all calls run_coinpaprika, run_coingecko, run_csv.
SourceOrder == <<"coinpaprika", "coingecko", "csv">>
Sources == {SourceOrder[i] : i \in 1..Len(SourceOrder)}

\* ------------------------------------------------------- checkpoint store
\* Rows of the table that belong to one source, in table order.
RowsOf(table, source) == {i \in 1..Len(table) : table[i].source = source}

\* get_checkpoint: the first row with the source, or None.
get_checkpoint(table, source) ==
    IF RowsOf(table, source) = {} THEN None
    ELSE Some(table[CHOOSE i \in RowsOf(table, source) :
                       \A j \in RowsOf(table, source) : i <= j])

\* is_source_running answering true for every source that has a checkpoint.
is_source_running_any_status(table, source) == get_checkpoint(table, source) # None

\* is_source_running: a checkpoint exists and its status is "running".
is_source_running(table, source) ==
    /\ get_checkpoint(table, source) # None
    /\ get_checkpoint(table, source)[1].status = "running"

\* get_last_successful_run answering with the timestamp of any checkpoint.
get_last_successful_run_any_status(table, source) ==
    IF get_checkpoint(table, source) # None
    THEN Some(get_checkpoint(table, source)[1].last_run_timestamp)
    ELSE None

\* get_last_successful_run: the timestamp of a checkpoint with status success.
get_last_successful_run(table, source) ==
    IF /\ get_checkpoint(table, source) # None
       /\ get_checkpoint(table, source)[1].status = "success"
    THEN Some(get_checkpoint(table, source)[1].last_run_timestamp)
    ELSE None

\* start_run forgetting to clear the error message of the previous run.
RestartedRowKeepsError(row, now) ==
    [row EXCEPT !.status = "running", !.last_run_timestamp = now]

\* start_run leaving the status of an existing checkpoint as it is.
RestartedRowKeepsStatus(row, now) ==
    [row EXCEPT !.last_run_timestamp = now, !.error_message = None]

\* The existing checkpoint as start_run rewrites it.
RestartedRow(row, now) ==
    [row EXCEPT !.status = "running",
                !.last_run_timestamp = now,
                !.error_message = None]

\* start_run adding a row without looking for an existing checkpoint, into a
\* table without the unique constraint on source.
start_run_always_inserts(table, source, now) ==
    Append(table, [source |-> source,
                   last_run_timestamp |-> now,
                   status |-> "running",
                   records_processed |-> 0,
                   duration_seconds |-> None,
                   error_message |-> None])

\* start_run: update the existing checkpoint in place, or add a new one.
start_run(table, source, now) ==
    IF get_checkpoint(table, source) # None
    THEN LET i == CHOOSE k \in RowsOf(table, source) :
                      \A j \in RowsOf(table, source) : k <= j
         IN  [table EXCEPT ![i] = RestartedRow(table[i], now)]
    ELSE Append(table, [source |-> source,
                        last_run_timestamp |-> now,
                        status |-> "running",
                        records_processed |-> 0,
                        duration_seconds |-> None,
                        error_message |-> None])

\* complete_run forgetting to store the error message.
CompletedRowDropsError(row, records_processed, duration_seconds, success, error_message) ==
    [row EXCEPT !.status = IF success THEN "success" ELSE "failure",
                !.records_processed = records_processed,
                !.duration_seconds = Some(duration_seconds)]

\* complete_run forgetting to store the count.
CompletedRowKeepsCount(row, records_processed, duration_seconds, success, error_message) ==
    [row EXCEPT !.status = IF success THEN "success" ELSE "failure",
                !.duration_seconds = Some(duration_seconds),
                !.error_message = error_message]

\* complete_run forgetting to store the status.
CompletedRowKeepsStatus(row, records_processed, duration_seconds, success, error_message) ==
    [row EXCEPT !.records_processed = records_processed,
                !.duration_seconds = Some(duration_seconds),
                !.error_message = error_message]

\* complete_run moving the timestamp to the end of the run.
CompletedRowStampsEnd(row, records_processed, duration_seconds, success, error_message) ==
    [row EXCEPT !.status = IF success THEN "success" ELSE "failure",
                !.last_run_timestamp = @ + duration_seconds,
                !.records_processed = records_processed,
                !.duration_seconds = Some(duration_seconds),
                !.error_message = error_message]

\* The checkpoint row as complete_run rewrites it.
CompletedRow(row, records_processed, duration_seconds, success, error_message) ==
    [row EXCEPT !.status = IF success THEN "success" ELSE "failure",
                !.records_processed = records_processed,
                !.duration_seconds = Some(duration_seconds),
                !.error_message = error_message]

\* complete_run creating the checkpoint it does not find.
complete_run_creates(table, source, records_processed, duration_seconds, success, error_message) ==
    IF get_checkpoint(table, source) = None
    THEN Append(table, [source |-> source,
                        last_run_timestamp |-> 0,
                        status |-> IF success THEN "success" ELSE "failure",
                        records_processed |-> records_processed,
                        duration_seconds |-> Some(duration_seconds),
                        error_message |-> error_message])
    ELSE LET i == CHOOSE k \in RowsOf(table, source) :
                      \A j \in RowsOf(table, source) : k <= j
         IN  [table EXCEPT ![i] = CompletedRow(table[i], records_processed,
                                               duration_seconds, success, error_message)]

\* complete_run: no checkpoint, no write; otherwise rewrite the checkpoint.
complete_run(table, source, records_processed, duration_seconds, success, error_message) ==
    IF get_checkpoint(table, source) = None THEN table
    ELSE LET i == CHOOSE k \in RowsOf(table, source) :
                      \A j \in RowsOf(table, source) : k <= j
         IN  [table EXCEPT ![i] = CompletedRow(table[i], records_processed,
                                               duration_seconds, success, error_message)]

\* ---------------------------------------------------------------- fetchers
Min(a, b) == IF a <= b THEN a ELSE b

\* What one session.get gives to _make_request: a usable response, a 429
\* response, or a RequestException (network failure, or an error status at
\* raise_for_status).  The loop handles all three; see `send` below for
\* which of them the session built by _create_session gives.
Responses == {"ok", "429", "error"}
ResponseSeqs == [1..max_retries -> Responses]

\* The last attempt of _make_request re-raises the RequestException.
IsLastAttempt(attempt) == attempt = max_retries - 1

\* delay = min(delay * 2, settings.max_retry_delay)
next_delay_keeps(delay) == delay

next_delay(delay) == Min(delay * 2, max_retry_delay)

\* time.sleep(settings.rate_limit_delay) after a usable response.
rate_limit_sleep_skipped(sleeps) == sleeps

rate_limit_sleep(sleeps) ==
    Append(sleeps, [kind |-> "rate_limit", delay |-> rate_limit_delay])

\* time.sleep(delay) before the next attempt.
backoff_sleep(sleeps, delay) ==
    Append(sleeps, [kind |-> "backoff", delay |-> delay])

\* _make_request from the iteration `attempt` (0-based) of its for loop, with
\* the current backoff delay and the sleeps made so far.
RECURSIVE make_request_from(_, _, _, _)
make_request_from(responses, attempt, delay, sleeps) ==
    IF attempt >= max_retries
    THEN [raised |-> Some("Max retries exceeded"), attempts |-> attempt, sleeps |-> sleeps]
    ELSE IF responses[attempt + 1] = "429"
    THEN make_request_from(responses, attempt + 1, next_delay(delay),
                           backoff_sleep(sleeps, delay))
    ELSE IF responses[attempt + 1] = "ok"
    THEN [raised |-> None, attempts |-> attempt + 1, sleeps |-> rate_limit_sleep(sleeps)]
    ELSE IF IsLastAttempt(attempt)
    THEN [raised |-> Some("RequestException"), attempts |-> attempt + 1, sleeps |-> sleeps]
    ELSE make_request_from(responses, attempt + 1, next_delay(delay),
                           backoff_sleep(sleeps, delay))

make_request(responses) == make_request_from(responses, 0, initial_retry_delay, <<>>)

\* The session of _create_session sends every GET through an HTTPAdapter with
\* Retry(total=max_retries, status_forcelist=[429, 500, 502, 503, 504]): the
\* adapter itself repeats a request answered by one of these statuses or by
\* a connection error, up to `total` more times, and raises when none is left.
total == max_retries
status_forcelist == {"429", "500", "502", "503", "504"}

\* What the provider answers to one HTTP request.
WireResponses == {"200", "404", "429", "503", "ConnectionError"}
Wires == [1..total + 1 -> WireResponses]

\* The k-th HTTP request of one session.get with `retries` repeats left:
\* what session.get gives to _make_request, and the requests it has sent.
\* A 404 comes back as a response, on which raise_for_status raises; a
\* forcelist status or connection error with no repeat left raises
\* RetryError or ConnectionError, both RequestExceptions.
RECURSIVE send(_, _, _)
send(wire, k, retries) ==
    IF wire[k] = "200" THEN [response |-> "ok", requests |-> k]
    ELSE IF wire[k] \notin status_forcelist \cup {"ConnectionError"}
    THEN [response |-> "error", requests |-> k]
    ELSE IF retries = 0 THEN [response |-> "error", requests |-> k]
    ELSE send(wire, k + 1, retries - 1)

\* self.session.get(url, params=params, timeout=30)
session_get(wire) == send(wire, 1, total)

\* The outcomes of the session.get calls of one _make_request, one per
\* iteration of its loop.
GetResults == {session_get(wire) : wire \in Wires}
GetSeqs == [1..max_retries -> GetResults]

ResponsesOf(gets) == [i \in 1..Len(gets) |-> gets[i].response]

\* The HTTP requests sent by the first n session.get calls.
RECURSIVE SumRequests(_, _)
SumRequests(gets, n) == IF n = 0 THEN 0 ELSE gets[n].requests + SumRequests(gets, n - 1)

\* The HTTP requests one _make_request sends to the provider.
http_requests(gets) == SumRequests(gets, make_request(ResponsesOf(gets)).attempts)

\* One element of the JSON list a provider returns.  A null "id" makes the
\* raw schema (coin_id: str) reject the element.
Ticker(id, name, symbol, price, market_cap, volume) ==
    [id |-> id, name |-> name, symbol |-> symbol,
     price |-> price, market_cap |-> market_cap, volume |-> volume]

Tickers ==
    { Ticker(Some("btc"), Some("Bitcoin"), Some("BTC"), Some(100), Some(1000), Some(10)),
      Ticker(Some("eth"), None, None, None, None, None),
      Ticker(None, Some("Broken"), Some("BRK"), Some(1), Some(1), Some(1)) }

SeqsUpTo(S, n) == UNION {[1..k -> S] : k \in 0..n}

Payloads == SeqsUpTo(Tickers, MaxBatch)

\* A pydantic schema accepts the element when its required coin_id is a str.
TickerParses(ticker) == ticker.id # None

\* RawCoinPaprikaSchema(...) as built in fetch_top_coins; ingested_at is the
\* default_factory datetime.utcnow() taken when the schema is built.
RawCoinPaprikaSchema(ticker, now) ==
    [coin_id |-> ticker.id[1], name |-> ticker.name, symbol |-> ticker.symbol,
     price_usd |-> ticker.price, market_cap |-> ticker.market_cap,
     volume_24h |-> ticker.volume, ingested_at |-> now]

\* RawCoinGeckoSchema(...) as built in fetch_markets_data.
RawCoinGeckoSchema(coin, now) ==
    [coin_id |-> coin.id[1], name |-> coin.name, symbol |-> coin.symbol,
     current_price |-> coin.price, market_cap |-> coin.market_cap,
     total_volume |-> coin.volume, ingested_at |-> now]

\* The per-element loop of a fetch: elements that fail to parse are skipped,
\* element i is stamped stamps[i].
RECURSIVE parse_items(_, _, _, _)
parse_items(source, items, stamps, i) ==
    IF i > Len(items) THEN <<>>
    ELSE IF ~TickerParses(items[i]) THEN parse_items(source, items, stamps, i + 1)
    ELSE <<IF source = "coingecko" THEN RawCoinGeckoSchema(items[i], stamps[i])
           ELSE RawCoinPaprikaSchema(items[i], stamps[i])>>
         \o parse_items(source, items, stamps, i + 1)

\* fetch_top_coins / fetch_markets_data: the outer except turns every error of
\* _make_request into an empty list.
fetch_api(source, responses, payload, stamps) ==
    IF make_request(responses).raised # None
    THEN [raised |-> None, data |-> <<>>]
    ELSE [raised |-> None, data |-> parse_items(source, payload, stamps, 1)]

\* A data row of the CSV file as csv.DictReader yields it: a cell is None
\* when the row is too short to have it.
CsvRow(coin_id, name, symbol, price_usd, market_cap, volume_24h) ==
    [coin_id |-> coin_id, name |-> name, symbol |-> symbol,
     price_usd |-> price_usd, market_cap |-> market_cap, volume_24h |-> volume_24h]

CsvRows ==
    { CsvRow(Some("btc"), Some("Bitcoin"), Some("BTC"), Some("100"), Some("1000"), Some("10")),
      CsvRow(Some("eth"), Some("Ethereum"), Some("ETH"), Some(""), Some(""), Some("")),
      CsvRow(Some("invalid"), Some("row"), Some("missing"), Some("fields"), None, None) }

CsvFiles == SeqsUpTo(CsvRows, MaxBatch)

\* float(cell) on the cells used here; "fields" is no number.
FloatOf(cell) ==
    CASE cell = "100" -> 100 [] cell = "1000" -> 1000 [] cell = "10" -> 10

IsFloat(cell) == cell \in {"100", "1000", "10"}

\* float(row[c]) if row.get(c) else None
CsvNumber(cell) == IF cell = None \/ cell = Some("") THEN None ELSE Some(FloatOf(cell[1]))

CsvNumberParses(cell) == cell = None \/ cell = Some("") \/ IsFloat(cell[1])

\* row.get(c, "").strip() raises on a None cell.
CsvRowParses(row) ==
    /\ row.coin_id # None /\ row.name # None /\ row.symbol # None
    /\ CsvNumberParses(row.price_usd)
    /\ CsvNumberParses(row.market_cap)
    /\ CsvNumberParses(row.volume_24h)

RawCSVSchema(row, now) ==
    [coin_id |-> row.coin_id[1], name |-> row.name[1], symbol |-> row.symbol[1],
     price_usd |-> CsvNumber(row.price_usd), market_cap |-> CsvNumber(row.market_cap),
     volume_24h |-> CsvNumber(row.volume_24h), ingested_at |-> now]

\* The loop of fetch_data with one try around it: a failing row loses the file.
parse_rows_aborts(rows, stamps, i) ==
    IF \E j \in 1..Len(rows) : ~CsvRowParses(rows[j])
    THEN <<>>
    ELSE [j \in 1..Len(rows) |-> RawCSVSchema(rows[j], stamps[j])]

\* The per-row loop of fetch_data: rows that fail to parse are skipped.
RECURSIVE parse_rows(_, _, _)
parse_rows(rows, stamps, i) ==
    IF i > Len(rows) THEN <<>>
    ELSE IF ~CsvRowParses(rows[i]) THEN parse_rows(rows, stamps, i + 1)
    ELSE <<RawCSVSchema(rows[i], stamps[i])>> \o parse_rows(rows, stamps, i + 1)

\* CSVSource.fetch_data: a missing or unreadable file gives an empty list.
fetch_data(exists, readable, rows, stamps) ==
    IF ~exists \/ ~readable THEN <<>> ELSE parse_rows(rows, stamps, 1)

\* ------------------------------------------------------------- transformer
\* UnifiedCryptoDataSchema(...): coin_id, name and symbol are required str.
UnifiedCryptoDataSchema(coin_id, name, symbol, price_usd, market_cap, volume_24h, source, ingested_at) ==
    [coin_id |-> coin_id, name |-> name, symbol |-> symbol,
     price_usd |-> price_usd, market_cap |-> market_cap, volume_24h |-> volume_24h,
     source |-> source, ingested_at |-> ingested_at]

\* Python's `x or ""` on an Optional[str].
OrEmpty(x) == IF x = None \/ x = Some("") THEN "" ELSE x[1]

transform_coinpaprika(r) ==
    UnifiedCryptoDataSchema(r.coin_id, OrEmpty(r.name), OrEmpty(r.symbol),
                            r.price_usd, r.market_cap, r.volume_24h,
                            "coinpaprika", r.ingested_at)

\* transform_coingecko defaulting an absent number to zero.
transform_coingecko_zero(r) ==
    UnifiedCryptoDataSchema(r.coin_id, OrEmpty(r.name), OrEmpty(r.symbol),
                            IF r.current_price = None THEN Some(0) ELSE r.current_price,
                            IF r.market_cap = None THEN Some(0) ELSE r.market_cap,
                            IF r.total_volume = None THEN Some(0) ELSE r.total_volume,
                            "coingecko", r.ingested_at)

transform_coingecko(r) ==
    UnifiedCryptoDataSchema(r.coin_id, OrEmpty(r.name), OrEmpty(r.symbol),
                            r.current_price, r.market_cap, r.total_volume,
                            "coingecko", r.ingested_at)

\* transform_csv passes name and symbol through; the raw schema requires them.
transform_csv(r) ==
    UnifiedCryptoDataSchema(r.coin_id, r.name, r.symbol,
                            r.price_usd, r.market_cap, r.volume_24h,
                            "csv", r.ingested_at)

\* Whether the mapping of an item of the list succeeds.  Every record the
\* raw schemas accept gives str coin_id, name and symbol, an Optional[float]
\* in each numeric field and one of the three source tags, so its mapping
\* passes the unified schema's validation; an item that is no raw record
\* (None) has no coin_id and the mapping raises AttributeError.
TransformSucceeds(source, r) == source \in Sources /\ "coin_id" \in DOMAIN r

transform_one(source, r) ==
    CASE source = "coinpaprika" -> transform_coinpaprika(r)
      [] source = "coingecko" -> transform_coingecko(r)
      [] source = "csv" -> transform_csv(r)

\* transform_batch_* with one try around the whole loop: a failing item
\* loses the batch.
transform_batch_aborts(source, raw_data_list) ==
    IF \E i \in 1..Len(raw_data_list) : ~TransformSucceeds(source, raw_data_list[i])
    THEN <<>>
    ELSE [i \in 1..Len(raw_data_list) |-> transform_one(source, raw_data_list[i])]

\* transform_batch_*: records whose mapping raises are left out.
RECURSIVE transform_batch(_, _)
transform_batch(source, raw_data_list) ==
    IF raw_data_list = <<>> THEN <<>>
    ELSE (IF TransformSucceeds(source, Head(raw_data_list))
          THEN <<transform_one(source, Head(raw_data_list))>> ELSE <<>>)
         \o transform_batch(source, Tail(raw_data_list))

\* ------------------------------------------------------------------ loader
\* The row a raw record is stored as: RawCoinPaprika(...), RawCoinGecko(...),
\* RawCSV(...) copy the fields modelled here one to one.
RawRow(data) == data

\* load_raw_* without the rollback: the records written before the error stay.
load_raw_no_rollback(table, data_list, fails) ==
    IF data_list = <<>> THEN [table |-> table, raised |-> None, count |-> 0]
    ELSE IF fails THEN [table |-> Append(table, data_list[1]),
                        raised |-> Some("raw load failed"), count |-> 0]
    ELSE [table |-> table \o data_list, raised |-> None, count |-> Len(data_list)]

\* load_raw_* swallowing the storage error instead of re-raising it.
load_raw_swallows(table, data_list, fails) ==
    IF data_list = <<>> \/ fails THEN [table |-> table, raised |-> None, count |-> 0]
    ELSE [table |-> table \o data_list, raised |-> None, count |-> Len(data_list)]

\* load_raw_* replacing the table by the batch instead of appending to it.
load_raw_replaces(table, data_list, fails) ==
    IF data_list = <<>> THEN [table |-> table, raised |-> None, count |-> 0]
    ELSE IF fails THEN [table |-> table, raised |-> Some("raw load failed"), count |-> 0]
    ELSE [table |-> [i \in 1..Len(data_list) |-> RawRow(data_list[i])],
          raised |-> None, count |-> Len(data_list)]

\* load_raw_*: bulk_save_objects and commit; an error rolls the session back
\* and is re-raised.  `fails` is whether the storage rejects the write.
load_raw(table, data_list, fails) ==
    IF data_list = <<>> THEN [table |-> table, raised |-> None, count |-> 0]
    ELSE IF fails THEN [table |-> table, raised |-> Some("raw load failed"), count |-> 0]
    ELSE [table |-> table \o [i \in 1..Len(data_list) |-> RawRow(data_list[i])],
          raised |-> None, count |-> Len(data_list)]

\* A natural key without the ingestion time.
KeyWithoutTime(r) == <<r.coin_id, r.source>>

\* The natural key of a unified record or row (uq_coin_source_time).
Key(r) == <<r.coin_id, r.source, r.ingested_at>>

KeyRows(table, data) == {i \in 1..Len(table) : Key(table[i]) = Key(data)}

\* A plain INSERT into a table without the unique constraint.
upsert_plain_insert(table, data) == Append(table, data)

\* INSERT ... ON CONFLICT DO NOTHING: the first write wins.
upsert_do_nothing(table, data) ==
    IF KeyRows(table, data) # {} THEN table ELSE Append(table, data)

\* INSERT ... ON CONFLICT (coin_id, source, ingested_at) DO UPDATE SET name,
\* symbol, price_usd, market_cap, volume_24h = excluded.*
upsert(table, data) ==
    IF KeyRows(table, data) = {} THEN Append(table, data)
    ELSE [i \in 1..Len(table) |->
            IF i \in KeyRows(table, data)
            THEN [table[i] EXCEPT !.name = data.name,
                                  !.symbol = data.symbol,
                                  !.price_usd = data.price_usd,
                                  !.market_cap = data.market_cap,
                                  !.volume_24h = data.volume_24h]
            ELSE table[i]]

\* The statements of one transaction applied in order.
RECURSIVE apply_all(_, _)
apply_all(table, stmts) ==
    IF stmts = <<>> THEN table
    ELSE apply_all(upsert(table, Head(stmts)), Tail(stmts))

\* execute on a session in autocommit mode: the statement is visible at once.
execute_autocommit(table, pending, data) ==
    [table |-> apply_all(table, <<data>>), pending |-> pending]

\* self.db.execute(stmt): the statement joins the session's open transaction
\* and is not visible outside it.
execute(table, pending, data) == [table |-> table, pending |-> Append(pending, data)]

\* A commit that loses the transaction's statements.
commit_discards(table, pending) == table

\* self.db.commit(): the transaction's statements become visible at once.
commit(table, pending) == apply_all(table, pending)

\* self.db.rollback(): the transaction's statements are dropped.
rollback(table, pending) == table

\* The statements of load_unified_data's loop executed in order.
RECURSIVE execute_all(_, _, _)
execute_all(table, pending, data_list) ==
    IF data_list = <<>> THEN [table |-> table, pending |-> pending]
    ELSE execute_all(execute(table, pending, Head(data_list)).table,
                     execute(table, pending, Head(data_list)).pending,
                     Tail(data_list))

\* The table after a call of load_unified_data that does not fail.
load_unified_data(table, data_list) ==
    IF data_list = <<>> THEN table
    ELSE commit(execute_all(table, <<>>, data_list).table,
                execute_all(table, <<>>, data_list).pending)

\* --------------------------------------------------------------- processes
Idle ==
    [pc |-> "idle", idx |-> 0, src |-> "none", start_time |-> 0, skipped |-> FALSE,
     raw_data |-> <<>>, unified_data |-> <<>>, i |-> 0, pending |-> <<>>,
     count |-> 0, exc |-> None, fetch_error |-> None,
     op |-> "none", args |-> <<>>]

Init ==
    /\ checkpoints = <<>>
    /\ raw = [s \in Sources |-> <<>>]
    /\ unified = <<>>
    /\ clock = 0
    /\ calls = 0
    /\ proc = [p \in Procs |-> Idle]

\* The clock advances.
Tick ==
    /\ clock < MaxClock
    /\ clock' = clock + 1
    /\ UNCHANGED <<checkpoints, raw, unified, calls, proc>>

\* Entry of run_coinpaprika / run_coingecko / run_csv: start_time is taken.
\* k is the position of the call in run_all, 0 for a call from elsewhere
\* (-1 marks a loader method called on its own, outside run_source).
EnterRunSource(k, source) ==
    [Idle EXCEPT !.pc = "guard", !.idx = k, !.src = source, !.start_time = clock]

\* One of run_coinpaprika(), run_coingecko(), run_csv() is called on its own.
run_source(p, source) ==
    /\ proc[p].pc = "idle"
    /\ calls < MaxCalls
    /\ calls' = calls + 1
    /\ proc' = [proc EXCEPT ![p] = EnterRunSource(0, source)]
    /\ UNCHANGED <<checkpoints, raw, unified, clock>>

\* run_all: the first of its three calls.
run_all(p) ==
    /\ proc[p].pc = "idle"
    /\ calls < MaxRuns
    /\ calls' = calls + 1
    /\ proc' = [proc EXCEPT ![p] = EnterRunSource(1, SourceOrder[1])]
    /\ UNCHANGED <<checkpoints, raw, unified, clock>>

\* run_all giving up at the first source whose run ended in failure.
AfterSourceStopsOnFailure(k) ==
    IF /\ k < Len(SourceOrder)
       /\ get_checkpoint(checkpoints, SourceOrder[k])[1].status # "failure"
    THEN EnterRunSource(k + 1, SourceOrder[k + 1]) ELSE Idle

\* What run_all does when its call number k has returned: the next call,
\* whatever the outcome of this one, and its own return after the last.
AfterSource(k) ==
    IF k < Len(SourceOrder) THEN EnterRunSource(k + 1, SourceOrder[k + 1]) ELSE Idle

\* run_source has returned, to run_all or to its direct caller.
Return(p) ==
    /\ proc[p].pc = "returned"
    /\ proc' = [proc EXCEPT ![p] = IF proc[p].idx = 0 THEN Idle
                                   ELSE AfterSource(proc[p].idx)]
    /\ UNCHANGED <<checkpoints, raw, unified, clock, calls>>

\* run_source without the running-guard.
AfterGuardNoCheck(table, source) == "start_run"

\* run_source treating "already running" as an error of the run.
AfterGuardRaises(table, source) ==
    IF is_source_running(table, source) THEN "except" ELSE "start_run"

\* The running-guard: the pc after the is_source_running check.
AfterGuard(table, source) ==
    IF is_source_running(table, source) THEN "returned" ELSE "start_run"

Guard(p) ==
    /\ proc[p].pc = "guard"
    /\ proc' = [proc EXCEPT ![p].pc = AfterGuard(checkpoints, proc[p].src),
                            ![p].skipped = is_source_running(checkpoints, proc[p].src)]
    /\ UNCHANGED <<checkpoints, raw, unified, clock, calls>>

\* self.checkpoint_manager.start_run(source_name)
StartRun(p) ==
    /\ proc[p].pc = "start_run"
    /\ checkpoints' = start_run(checkpoints, proc[p].src, clock)
    /\ proc' = [proc EXCEPT ![p].pc = "fetch"]
    /\ UNCHANGED <<raw, unified, clock, calls>>

\* An INSERT into a checkpoints table without the unique constraint.
insert_checkpoint_unconstrained(table, row) ==
    [table |-> Append(table, row), raised |-> None]

\* The INSERT of a new checkpoint at the flush of the commit: the column
\* source is unique=True, a second row for a source raises IntegrityError.
insert_checkpoint(table, row) ==
    IF RowsOf(table, row.source) # {}
    THEN [table |-> table, raised |-> Some("IntegrityError")]
    ELSE [table |-> Append(table, row), raised |-> None]

\* start_run from its `if checkpoint:` on, `found` being what its
\* get_checkpoint returned: the found row is updated in place, or a new row
\* is added, and the session is committed.
start_run_commit(table, found, source, now) ==
    IF found # None
    THEN [table |-> start_run(table, source, now), raised |-> None]
    ELSE insert_checkpoint(table, [source |-> source,
                                   last_run_timestamp |-> now,
                                   status |-> "running",
                                   records_processed |-> 0,
                                   duration_seconds |-> None,
                                   error_message |-> None])

\* The get_checkpoint of start_run, as a step of its own: other processes
\* may commit between it and the commit of start_run.
StartRunRead(p) ==
    /\ proc[p].pc = "start_run"
    /\ proc' = [proc EXCEPT ![p].pc = "start_run_commit",
                            ![p].args = <<get_checkpoint(checkpoints, proc[p].src)>>]
    /\ UNCHANGED <<checkpoints, raw, unified, clock, calls>>

\* The rest of start_run; an IntegrityError of the commit is raised into the
\* except block of run_source with the session's transaction left inactive.
StartRunCommit(p) ==
    /\ proc[p].pc = "start_run_commit"
    /\ LET r == start_run_commit(checkpoints, proc[p].args[1], proc[p].src, clock)
       IN  /\ checkpoints' = r.table
           /\ proc' = [proc EXCEPT ![p].pc = IF r.raised = None THEN "fetch"
                                             ELSE "except_inactive",
                                   ![p].exc = r.raised]
    /\ UNCHANGED <<raw, unified, clock, calls>>

\* The except block of run_source after the failed commit of start_run: the
\* query of complete_run raises on the inactive transaction (no rollback was
\* issued), and the error leaves run_source.
ExceptRaises(p) ==
    /\ proc[p].pc = "except_inactive"
    /\ proc' = [proc EXCEPT ![p] = [Idle EXCEPT !.exc = Some("PendingRollbackError")]]
    /\ UNCHANGED <<checkpoints, raw, unified, clock, calls>>

\* The timestamps utcnow() can give to n schemas built one after another.
Stamps(n) ==
    {st \in [1..n -> clock..MaxClock] : \A a, b \in 1..n : a <= b => st[a] <= st[b]}

LastStamp(st) == IF Len(st) = 0 THEN clock ELSE st[Len(st)]

\* run_source treating an empty fetch as an error.
AfterFetchEmptyIsError(raw_data) == IF raw_data = <<>> THEN "except" ELSE "load_raw"

\* The pc after the fetch: `if not raw_data` completes the run with count 0.
AfterFetch(raw_data) == IF raw_data = <<>> THEN "complete" ELSE "load_raw"

\* source.fetch_top_coins(limit=10) / source.fetch_markets_data(per_page=10)
FetchApi(p) ==
    /\ proc[p].pc = "fetch"
    /\ proc[p].src \in {"coinpaprika", "coingecko"}
    /\ \E responses \in ResponseSeqs, payload \in Payloads :
       \E st \in Stamps(Len(payload)) :
          LET r == fetch_api(proc[p].src, responses, payload, st)
          IN  /\ proc' = [proc EXCEPT ![p].pc = AfterFetch(r.data),
                                      ![p].raw_data = r.data,
                                      ![p].exc = r.raised,
                                      ![p].fetch_error = make_request(responses).raised]
              /\ clock' = IF make_request(responses).raised # None THEN clock
                          ELSE LastStamp(st)
    /\ UNCHANGED <<checkpoints, raw, unified, calls>>

\* source.fetch_data() of the CSV source
FetchCsv(p) ==
    /\ proc[p].pc = "fetch"
    /\ proc[p].src = "csv"
    /\ \E exists \in BOOLEAN, readable \in BOOLEAN, rows \in CsvFiles :
       \E st \in Stamps(Len(rows)) :
          LET data == fetch_data(exists, readable, rows, st)
          IN  /\ proc' = [proc EXCEPT ![p].pc = AfterFetch(data),
                                      ![p].raw_data = data,
                                      ![p].fetch_error = IF exists /\ readable THEN None
                                                         ELSE Some("unreadable")]
              /\ clock' = IF exists /\ readable THEN LastStamp(st) ELSE clock
    /\ UNCHANGED <<checkpoints, raw, unified, calls>>

\* load_raw_coinpaprika / load_raw_coingecko / load_raw_csv, returning the
\* count or raising into run_source (or to the direct caller)
LoadRaw(p) ==
    /\ proc[p].pc = "load_raw"
    /\ \E fails \in BOOLEAN :
          LET r == load_raw(raw[proc[p].src], proc[p].raw_data, fails)
          IN  /\ raw' = [raw EXCEPT ![proc[p].src] = r.table]
              /\ proc' = [proc EXCEPT ![p].pc = IF proc[p].idx = -1 THEN "idle"
                                                ELSE IF r.raised # None THEN "except"
                                                ELSE "transform",
                                      ![p].count = r.count,
                                      ![p].exc = r.raised]
    /\ UNCHANGED <<checkpoints, unified, clock, calls>>

\* self.transformer.transform_batch_*(raw_data), then the entry of
\* load_unified_data, which returns 0 at once on an empty list.
Transform(p) ==
    /\ proc[p].pc = "transform"
    /\ LET u == transform_batch(proc[p].src, proc[p].raw_data)
       IN  proc' = [proc EXCEPT ![p].unified_data = u,
                                ![p].i = 0,
                                ![p].pending = <<>>,
                                ![p].count = 0,
                                ![p].pc = IF u = <<>> THEN "complete" ELSE "load_unified"]
    /\ UNCHANGED <<checkpoints, raw, unified, clock, calls>>

\* Where load_unified_data returns to: run_source, or a direct caller.
ReturnPc(p) == IF proc[p].idx = -1 THEN "idle" ELSE "complete"
RaisePc(p) == IF proc[p].idx = -1 THEN "idle" ELSE "except"

\* One iteration of the loop of load_unified_data: execute the upsert.
LoadUnifiedExec(p) ==
    /\ proc[p].pc = "load_unified"
    /\ proc[p].i < Len(proc[p].unified_data)
    /\ LET r == execute(unified, proc[p].pending, proc[p].unified_data[proc[p].i + 1])
       IN  /\ unified' = r.table
           /\ proc' = [proc EXCEPT ![p].i = @ + 1, ![p].pending = r.pending]
    /\ UNCHANGED <<checkpoints, raw, clock, calls>>

\* The commit after the loop, and the return of len(data_list).
LoadUnifiedCommit(p) ==
    /\ proc[p].pc = "load_unified"
    /\ proc[p].i = Len(proc[p].unified_data)
    /\ unified' = commit(unified, proc[p].pending)
    /\ proc' = [proc EXCEPT ![p].pending = <<>>,
                            ![p].count = Len(proc[p].unified_data),
                            ![p].pc = ReturnPc(p)]
    /\ UNCHANGED <<checkpoints, raw, clock, calls>>

\* An execute or the commit raises: rollback, and the error is re-raised.
LoadUnifiedFail(p) ==
    /\ proc[p].pc = "load_unified"
    /\ unified' = rollback(unified, proc[p].pending)
    /\ proc' = [proc EXCEPT ![p].pending = <<>>,
                            ![p].exc = Some("unified load failed"),
                            ![p].pc = RaisePc(p)]
    /\ UNCHANGED <<checkpoints, raw, clock, calls>>

\* complete_run(source_name, count, duration, success=True), then return.
Complete(p) ==
    /\ proc[p].pc = "complete"
    /\ checkpoints' = complete_run(checkpoints, proc[p].src, proc[p].count,
                                   clock - proc[p].start_time, TRUE, None)
    /\ proc' = [proc EXCEPT ![p].pc = "returned"]
    /\ UNCHANGED <<raw, unified, clock, calls>>

\* The except branch of run_source: complete_run(source_name, 0, duration,
\* success=False, error_message=str(e)); nothing is re-raised.
Except(p) ==
    /\ proc[p].pc = "except"
    /\ checkpoints' = complete_run(checkpoints, proc[p].src, 0,
                                   clock - proc[p].start_time, FALSE, proc[p].exc)
    /\ proc' = [proc EXCEPT ![p].pc = "returned"]
    /\ UNCHANGED <<raw, unified, clock, calls>>

\* The process is killed inside run_source; its open transaction is lost.
Terminate(p) ==
    /\ proc[p].pc # "idle"
    /\ proc[p].idx >= 0
    /\ proc' = [proc EXCEPT ![p] = Idle]
    /\ UNCHANGED <<checkpoints, raw, unified, clock, calls>>

\* The process has called start_run for the source in the run it is in and
\* has not yet completed it.
RunStarted(p, source) ==
    /\ proc[p].idx >= 0
    /\ proc[p].src = source
    /\ ~proc[p].skipped
    /\ proc[p].pc \in {"fetch", "load_raw", "transform", "load_unified", "complete", "except"}

\* The checkpoint of the source is "running" and no process is in a run it
\* started for the source: the process that started it was killed.
Orphaned(source) ==
    /\ is_source_running(checkpoints, source)
    /\ \A p \in Procs : ~RunStarted(p, source)

\* The program is started again after a kill and calls the run method of
\* the source whose checkpoint is still "running".
rerun_source(p, source) ==
    /\ Orphaned(source)
    /\ run_source(p, source)

\* The program is started again after a kill and calls run_all.
rerun_all(p) ==
    /\ \E orphan \in Sources : Orphaned(orphan)
    /\ proc[p].pc = "idle"
    /\ calls < MaxCalls
    /\ calls' = calls + 1
    /\ proc' = [proc EXCEPT ![p] = EnterRunSource(1, SourceOrder[1])]
    /\ UNCHANGED <<checkpoints, raw, unified, clock>>

\* ------------------------------------------- the loader called on its own
\* Raw records a fetch of the source can give.
RawPool(source) ==
    IF source = "csv"
    THEN {RawCSVSchema(row, t) : row \in {r \in CsvRows : CsvRowParses(r)}, t \in 0..MaxClock}
    ELSE IF source = "coingecko"
    THEN {RawCoinGeckoSchema(c, t) : c \in {r \in Tickers : TickerParses(r)}, t \in 0..MaxClock}
    ELSE {RawCoinPaprikaSchema(c, t) : c \in {r \in Tickers : TickerParses(r)}, t \in 0..MaxClock}

\* Unified records, two of them with the same natural key.
UnifiedPool ==
    { UnifiedCryptoDataSchema("btc", "Bitcoin", "BTC", Some(100), Some(1000), Some(10), "csv", 0),
      UnifiedCryptoDataSchema("btc", "Bitcoin Cash", "BCH", Some(110), Some(1100), Some(11), "csv", 0),
      UnifiedCryptoDataSchema("btc", "Bitcoin", "BTC", None, None, None, "coingecko", 0),
      UnifiedCryptoDataSchema("btc", "Bitcoin", "BTC", Some(100), Some(1000), Some(10), "csv", 1),
      UnifiedCryptoDataSchema("eth", "Ethereum", "ETH", Some(5), None, Some(50), "csv", 0) }

UnifiedBatches == SeqsUpTo(UnifiedPool, MaxLoad)

\* loader.load_raw_*(data_list) is called.
call_load_raw(p, source) ==
    /\ proc[p].pc = "idle"
    /\ calls < MaxLoads
    /\ calls' = calls + 1
    /\ \E data_list \in SeqsUpTo(RawPool(source), MaxLoad) :
          proc' = [proc EXCEPT ![p] = [Idle EXCEPT !.pc = "load_raw", !.idx = -1,
                                                   !.src = source,
                                                   !.raw_data = data_list]]
    /\ UNCHANGED <<checkpoints, raw, unified, clock>>

\* loader.load_unified_data(data_list) is called; an empty list returns 0.
call_load_unified(p) ==
    /\ proc[p].pc = "idle"
    /\ calls < MaxLoads
    /\ calls' = calls + 1
    /\ \E data_list \in UnifiedBatches :
          proc' = [proc EXCEPT ![p] = [Idle EXCEPT !.pc = IF data_list = <<>> THEN "idle"
                                                          ELSE "load_unified",
                                                   !.idx = -1,
                                                   !.unified_data = data_list]]
    /\ UNCHANGED <<checkpoints, raw, unified, clock>>

\* ------------------------------ the checkpoint manager called on its own
\* The arguments complete_run is called with: records_processed,
\* duration_seconds, success and error_message (None by default).
Errors == {None, Some("timeout")}
CompleteArgs == (0..MaxBatch) \X (0..MaxClock) \X BOOLEAN \X Errors

\* checkpoint_manager.start_run(source) is called and returns; args keeps
\* the checkpoint its get_checkpoint found.
call_start_run(p, source) ==
    /\ proc[p].pc = "idle"
    /\ calls < MaxOps
    /\ calls' = calls + 1
    /\ checkpoints' = start_run(checkpoints, source, clock)
    /\ proc' = [proc EXCEPT ![p] = [Idle EXCEPT !.idx = -1, !.src = source,
                                                !.op = "start_run",
                                                !.args = <<get_checkpoint(checkpoints, source)>>]]
    /\ UNCHANGED <<raw, unified, clock>>

\* checkpoint_manager.complete_run(source, ...) is called and returns.
call_complete_run(p, source) ==
    /\ proc[p].pc = "idle"
    /\ calls < MaxOps
    /\ calls' = calls + 1
    /\ \E a \in CompleteArgs :
          /\ checkpoints' = complete_run(checkpoints, source, a[1], a[2], a[3], a[4])
          /\ proc' = [proc EXCEPT ![p] = [Idle EXCEPT !.idx = -1, !.src = source,
                                                      !.op = "complete_run",
                                                      !.args = a]]
    /\ UNCHANGED <<raw, unified, clock>>

\* ------------------------------------------ a provider request on its own
\* source._make_request(endpoint) is called and returns or raises; args keeps
\* what each session.get gave, the outcome and the HTTP requests sent.
call_make_request(p) ==
    /\ proc[p].pc = "idle"
    /\ calls < MaxCalls
    /\ calls' = calls + 1
    /\ \E gets \in GetSeqs :
          proc' = [proc EXCEPT ![p] =
                      [Idle EXCEPT !.idx = -1,
                                   !.op = "make_request",
                                   !.args = <<gets, make_request(ResponsesOf(gets)),
                                              http_requests(gets)>>,
                                   !.exc = make_request(ResponsesOf(gets)).raised]]
    /\ UNCHANGED <<checkpoints, raw, unified, clock>>

\* ------------------------------------- fetchers and transformer on their own
\* source.fetch_top_coins() / source.fetch_markets_data() is called and
\* returns; args keeps the JSON list the provider returned and the timestamps
\* of the schemas built from it.
call_fetch_api(p, source) ==
    /\ proc[p].pc = "idle"
    /\ calls < MaxCalls
    /\ calls' = calls + 1
    /\ \E responses \in ResponseSeqs, payload \in Payloads :
       \E st \in Stamps(Len(payload)) :
          LET r == fetch_api(source, responses, payload, st)
          IN  /\ proc' = [proc EXCEPT ![p] =
                             [Idle EXCEPT !.idx = -1, !.src = source,
                                          !.op = "fetch",
                                          !.args = <<payload, st>>,
                                          !.raw_data = r.data,
                                          !.exc = r.raised,
                                          !.fetch_error = make_request(responses).raised]]
              /\ clock' = IF make_request(responses).raised # None THEN clock
                          ELSE LastStamp(st)
    /\ UNCHANGED <<checkpoints, raw, unified>>

\* CSVSource(file_path).fetch_data() is called and returns; args keeps the
\* rows of the file and the timestamps.
call_fetch_data(p) ==
    /\ proc[p].pc = "idle"
    /\ calls < MaxCalls
    /\ calls' = calls + 1
    /\ \E exists \in BOOLEAN, readable \in BOOLEAN, rows \in CsvFiles :
       \E st \in Stamps(Len(rows)) :
          /\ proc' = [proc EXCEPT ![p] =
                         [Idle EXCEPT !.idx = -1, !.src = "csv",
                                      !.op = "fetch",
                                      !.args = <<rows, st>>,
                                      !.raw_data = fetch_data(exists, readable, rows, st),
                                      !.fetch_error = IF exists /\ readable THEN None
                                                      ELSE Some("unreadable")]]
          /\ clock' = IF exists /\ readable THEN LastStamp(st) ELSE clock
    /\ UNCHANGED <<checkpoints, raw, unified>>

\* The items a caller can pass to transform_batch_*: raw records of the
\* source, and None in the place of a record.
TransformInputs(source) == RawPool(source) \cup {None}

\* DataTransformer.transform_batch_*(raw_data_list) is called and returns.
call_transform_batch(p, source) ==
    /\ proc[p].pc = "idle"
    /\ calls < MaxCalls
    /\ calls' = calls + 1
    /\ \E raw_data_list \in SeqsUpTo(TransformInputs(source), MaxBatch) :
          proc' = [proc EXCEPT ![p] =
                      [Idle EXCEPT !.idx = -1, !.src = source,
                                   !.op = "transform_batch",
                                   !.args = <<raw_data_list>>,
                                   !.unified_data = transform_batch(source, raw_data_list)]]
    /\ UNCHANGED <<checkpoints, raw, unified, clock>>

\* source._make_request(endpoint) is called on a source whose session.get
\* gives the listed outcomes, one per iteration of the loop; args keeps them
\* and the outcome of the call.
call_make_request_on(p) ==
    /\ proc[p].pc = "idle"
    /\ calls < MaxOps
    /\ calls' = calls + 1
    /\ \E responses \in ResponseSeqs :
          proc' = [proc EXCEPT ![p] =
                      [Idle EXCEPT !.idx = -1,
                                   !.op = "make_request_on",
                                   !.args = <<responses, make_request(responses)>>,
                                   !.exc = make_request(responses).raised]]
    /\ UNCHANGED <<checkpoints, raw, unified, clock>>

\* The steps of one process inside run_source and the loader.
Step(p) ==
    \/ Guard(p)
    \/ StartRun(p)
    \/ FetchApi(p)
    \/ FetchCsv(p)
    \/ LoadRaw(p)
    \/ Transform(p)
    \/ LoadUnifiedExec(p)
    \/ LoadUnifiedCommit(p)
    \/ LoadUnifiedFail(p)
    \/ Complete(p)
    \/ Except(p)
    \/ Return(p)

\* One process calling the run_* methods one at a time; it may be killed.
Next ==
    \/ Tick
    \/ \E source \in Sources : run_source(1, source)
    \/ Step(1)
    \/ Terminate(1)

Spec == Init /\ [][Next]_vars

\* One process calling run_all and running it to its end.
NextAll ==
    \/ Tick
    \/ run_all(1)
    \/ Step(1)

SpecAll == Init /\ [][NextAll]_vars

\* One process calling the loader's methods with arbitrary batches.
NextLoader ==
    \/ \E source \in Sources : call_load_raw(1, source)
    \/ call_load_unified(1)
    \/ LoadRaw(1)
    \/ LoadUnifiedExec(1)
    \/ LoadUnifiedCommit(1)
    \/ LoadUnifiedFail(1)

SpecLoader == Init /\ [][NextLoader]_vars

\* One process calling _make_request of a source.
NextRequest == call_make_request(1)

SpecRequest == Init /\ [][NextRequest]_vars

\* One process calling _make_request over every sequence of session.get
\* outcomes.
NextLoop == call_make_request_on(1)

SpecLoop == Init /\ [][NextLoop]_vars

\* One process calling the fetch methods and the batch transforms.
NextSources ==
    \/ \E source \in {"coinpaprika", "coingecko"} : call_fetch_api(1, source)
    \/ call_fetch_data(1)
    \/ \E source \in Sources : call_transform_batch(1, source)

SpecSources == Init /\ [][NextSources]_vars

\* The source two overlapping invocations run.
RaceSource == "coinpaprika"

\* Two processes, each with its own session, calling the run method of the
\* same source; their steps interleave, and start_run reads and commits in
\* two steps.
NextRace ==
    \E p \in Procs :
        \/ run_source(p, RaceSource)
        \/ Guard(p)
        \/ StartRunRead(p)
        \/ StartRunCommit(p)
        \/ FetchApi(p)
        \/ LoadRaw(p)
        \/ Transform(p)
        \/ LoadUnifiedExec(p)
        \/ LoadUnifiedCommit(p)
        \/ LoadUnifiedFail(p)
        \/ Complete(p)
        \/ Except(p)
        \/ ExceptRaises(p)
        \/ Return(p)

SpecRace == Init /\ [][NextRace]_vars

\* One process that runs a source, may be killed, and is started again while
\* a checkpoint is left "running": it then calls the run method of that
\* source or run_all.  The clock moves with the timestamps of the fetches.
NextRestart ==
    \/ calls = 0 /\ \E source \in Sources : run_source(1, source)
    \/ \E source \in Sources : rerun_source(1, source)
    \/ rerun_all(1)
    \/ Step(1)
    \/ Terminate(1)

SpecRestart == Init /\ [][NextRestart]_vars

\* The same with a process that is never killed and keeps running: a step
\* of the run that can be taken is taken.
SpecAllFair == SpecAll /\ WF_vars(Step(1))

\* One process calling start_run and complete_run in any sequence.
NextManager ==
    \/ Tick
    \/ \E source \in Sources : call_start_run(1, source)
    \/ \E source \in Sources : call_complete_run(1, source)

SpecManager == Init /\ [][NextManager]_vars

\* One process calling start_run, complete_run and the run_* methods in any
\* sequence of at most MaxCalls calls.
NextCheckpoint ==
    \/ Tick
    \/ calls < MaxCalls /\ \E source \in Sources : call_start_run(1, source)
    \/ calls < MaxCalls /\ \E source \in Sources : call_complete_run(1, source)
    \/ \E source \in Sources : run_source(1, source)
    \/ Step(1)

SpecCheckpoint == Init /\ [][NextCheckpoint]_vars

\* -------------------------------------------------------------- properties
\* The checkpoint of a source as get_checkpoint gives it.
Ckpt(source) == get_checkpoint(checkpoints, source)

InRun(p) == proc[p].idx >= 0 /\ proc[p].pc # "idle"

\* C1: once a step of run_source has raised, the run is in its except branch
\* or has returned (nothing is re-raised), and when it has returned the
\* source's checkpoint has status "failure" and the error's message.
C1_ErrorContained ==
    \A p \in Procs :
        (InRun(p) /\ proc[p].exc # None) =>
            /\ proc[p].pc \in {"except", "returned"}
            /\ proc[p].pc = "returned" =>
                  /\ Ckpt(proc[p].src) # None
                  /\ Ckpt(proc[p].src)[1].status = "failure"
                  /\ Ckpt(proc[p].src)[1].error_message = proc[p].exc

\* A run whose canonical load raised has returned with the failure recorded.
C1_Witness ==
    /\ proc[1].pc = "returned"
    /\ proc[1].exc = Some("unified load failed")
    /\ Ckpt(proc[1].src) # None
    /\ Ckpt(proc[1].src)[1].status = "failure"
    /\ Ckpt(proc[1].src)[1].error_message = Some("unified load failed")

\* C2: run_all starts the sources in the order coinpaprika, coingecko, csv
\* (the order in which their checkpoints are created), the source it is
\* running is the one at its position, and when it has returned every source
\* has been run to a terminal checkpoint, whatever failed before it.
C2_RunAllOrder ==
    /\ Len(checkpoints) <= Len(SourceOrder)
    /\ \A k \in 1..Len(checkpoints) : checkpoints[k].source = SourceOrder[k]
    /\ \A p \in Procs :
          proc[p].pc # "idle" =>
              /\ proc[p].idx \in 1..Len(SourceOrder)
              /\ proc[p].src = SourceOrder[proc[p].idx]
              /\ Len(checkpoints) >= proc[p].idx - 1
    /\ (calls > 0 /\ \A p \in Procs : proc[p].pc = "idle") =>
          \A source \in Sources :
              /\ Ckpt(source) # None
              /\ Ckpt(source)[1].status \in {"success", "failure"}

\* run_all has returned after the first two sources failed and csv loaded.
C2_Witness ==
    /\ proc[1].pc = "idle"
    /\ calls = 1
    /\ Len(checkpoints) = 3
    /\ checkpoints[1].status = "failure"
    /\ checkpoints[2].status = "failure"
    /\ checkpoints[3].status = "success"
    /\ checkpoints[3].records_processed > 0

\* C3: when every attempt of the provider request has failed, the run of the
\* source ends with checkpoint status "failure".
C3_ExhaustionIsFailure ==
    \A p \in Procs :
        (/\ proc[p].pc = "returned"
         /\ proc[p].src \in {"coinpaprika", "coingecko"}
         /\ proc[p].fetch_error # None) =>
            /\ Ckpt(proc[p].src) # None
            /\ Ckpt(proc[p].src)[1].status = "failure"

\* C4: the canonical table holds at most one row per natural key.
C4_UniqueNaturalKey ==
    \A a, b \in 1..Len(unified) : Key(unified[a]) = Key(unified[b]) => a = b

\* A batch of two records with one key was committed into a single row.
C4_Witness ==
    /\ proc[1].pc = "idle"
    /\ proc[1].idx = -1
    /\ proc[1].exc = None
    /\ proc[1].count = 2
    /\ Len(proc[1].unified_data) = 2
    /\ Key(proc[1].unified_data[1]) = Key(proc[1].unified_data[2])
    /\ Len(unified) = 1

\* The index of the last record of a batch with the key of `row`.
LastWithKey(data_list, row) ==
    CHOOSE k \in 1..Len(data_list) :
        /\ Key(data_list[k]) = Key(row)
        /\ \A m \in 1..Len(data_list) : Key(data_list[m]) = Key(row) => m <= k

BatchKeys(data_list) == {Key(data_list[k]) : k \in 1..Len(data_list)}

TableKeys(table) == {Key(table[k]) : k \in 1..Len(table)}

NonKeyFields(r) == <<r.name, r.symbol, r.price_usd, r.market_cap, r.volume_24h>>

\* The table `after` is `before` with the batch upserted, latest write wins.
LatestWriteWins(before, after, data_list) ==
    /\ TableKeys(after) = TableKeys(before) \cup BatchKeys(data_list)
    /\ Len(after) = Cardinality(TableKeys(before) \cup BatchKeys(data_list))
    /\ \A k \in 1..Len(before) :
          /\ Key(after[k]) = Key(before[k])
          /\ Key(before[k]) \notin BatchKeys(data_list) => after[k] = before[k]
    /\ \A k \in 1..Len(after) :
          Key(after[k]) \in BatchKeys(data_list) =>
              NonKeyFields(after[k]) = NonKeyFields(data_list[LastWithKey(data_list, after[k])])

\* C5: every successful call of load_unified_data leaves the table as the
\* one before the call with an absent key inserted and a present key's name,
\* symbol, price_usd, market_cap and volume_24h overwritten by the last
\* record of the batch with that key; rows of other keys are untouched.
C5_LatestWriteWins ==
    [][\A p \in Procs :
          (/\ proc[p].pc = "load_unified"
           /\ proc'[p].pc # "load_unified"
           /\ proc'[p].exc = None)
          => LatestWriteWins(unified, unified', proc[p].unified_data)]_vars

\* A batch whose two records share a key was committed: one row, holding
\* the fields of the second record.
C5_Witness ==
    /\ proc[1].pc = "idle"
    /\ proc[1].idx = -1
    /\ proc[1].exc = None
    /\ proc[1].count = 2
    /\ Len(proc[1].unified_data) = 2
    /\ proc[1].unified_data[1].price_usd = Some(100)
    /\ proc[1].unified_data[2].price_usd = Some(110)
    /\ Len(unified) = 1
    /\ unified[1].price_usd = Some(110)
    /\ unified[1].name = "Bitcoin Cash"

\* C6: for every table reached and every batch, applying load_unified_data
\* twice in succession gives the table that applying it once gives.
C6_Idempotent ==
    \A data_list \in UnifiedBatches :
        load_unified_data(load_unified_data(unified, data_list), data_list)
            = load_unified_data(unified, data_list)

\* A batch that overwrote a row has been committed; applying it again to the
\* table it produced changes nothing.
C6_Witness ==
    /\ proc[1].pc = "idle"
    /\ proc[1].idx = -1
    /\ proc[1].exc = None
    /\ calls = 2
    /\ proc[1].count = 2
    /\ Len(unified) = 2
    /\ load_unified_data(unified, proc[1].unified_data) = unified

\* C7: while load_unified_data runs, the committed table changes only in the
\* step that ends the call successfully; a call that fails leaves the table
\* as it was, drops its open transaction and raises.
C7_Atomic ==
    [][\A p \in Procs :
          proc[p].pc = "load_unified" =>
              /\ unified' # unified =>
                    /\ proc'[p].pc # "load_unified"
                    /\ proc'[p].exc = None
                    /\ proc'[p].count = Len(proc[p].unified_data)
              /\ proc'[p].exc # None =>
                    /\ unified' = unified
                    /\ proc'[p].pending = <<>>
                    /\ proc'[p].pc # "load_unified"]_vars

\* A call failed after both its statements were executed; the table is empty.
C7_Witness ==
    /\ proc[1].pc = "idle"
    /\ proc[1].idx = -1
    /\ proc[1].exc # None
    /\ proc[1].i = 2
    /\ calls = 1
    /\ unified = <<>>

\* C8: a load_raw_* call either returns with the source's raw table extended
\* by exactly the batch, in order, and nothing else changed, or raises with
\* every raw table as it was.
C8_RawAtomicAppend ==
    [][\A p \in Procs :
          (proc[p].pc = "load_raw" /\ proc'[p].pc # "load_raw") =>
              \/ /\ proc'[p].exc = None
                 /\ raw'[proc[p].src] = raw[proc[p].src] \o proc[p].raw_data
                 /\ \A t \in Sources \ {proc[p].src} : raw'[t] = raw[t]
                 /\ proc'[p].count = Len(proc[p].raw_data)
              \/ /\ proc'[p].exc # None
                 /\ raw' = raw]_vars

\* A call failed after an earlier call had stored two rows, which remain.
C8_Witness ==
    /\ proc[1].pc = "idle"
    /\ proc[1].idx = -1
    /\ proc[1].exc = Some("raw load failed")
    /\ Len(proc[1].raw_data) = 2
    /\ Len(raw[proc[1].src]) = 2

\* C9: a run_source that finds its source's checkpoint "running" returns
\* without an error, fetches nothing and changes neither the checkpoints nor
\* the raw tables nor the canonical table.
C9_GuardIsNoOp ==
    [][\A p \in Procs :
          (\/ proc[p].pc = "guard" /\ is_source_running(checkpoints, proc[p].src)
           \/ proc[p].skipped)
          => /\ UNCHANGED <<checkpoints, raw, unified>>
             /\ proc'[p].pc \in {"guard", "returned", "idle"}
             /\ proc'[p].raw_data = <<>>
             /\ proc'[p].exc = None
             /\ proc'[p].fetch_error = None]_vars

\* A run was refused by the guard and has returned.
C9_Witness ==
    /\ proc[1].pc = "returned"
    /\ proc[1].skipped
    /\ Ckpt(proc[1].src) # None
    /\ Ckpt(proc[1].src)[1].status = "running"

\* C10: from the fetch to the end of the canonical load, the checkpoint of
\* the source being run has status "running", no error message and a
\* timestamp taken since the run began.
C10_RunningDuringRun ==
    \A p \in Procs :
        (proc[p].idx >= 0 /\ proc[p].pc \in {"fetch", "load_raw", "transform", "load_unified"}) =>
            /\ Ckpt(proc[p].src) # None
            /\ Ckpt(proc[p].src)[1].status = "running"
            /\ Ckpt(proc[p].src)[1].error_message = None
            /\ Ckpt(proc[p].src)[1].last_run_timestamp >= proc[p].start_time
            /\ Ckpt(proc[p].src)[1].last_run_timestamp <= clock

\* A second run of a source is fetching: the checkpoint still carries the
\* count of the first run and has the new timestamp.
C10_Witness ==
    /\ proc[1].pc = "fetch"
    /\ Ckpt(proc[1].src) # None
    /\ Ckpt(proc[1].src)[1].records_processed > 0
    /\ Ckpt(proc[1].src)[1].status = "running"
    /\ Ckpt(proc[1].src)[1].last_run_timestamp = 1
    /\ proc[1].start_time = 1

\* A run whose fetch returned zero records and that has not ended yet.
EmptyFetched(r) ==
    /\ r.idx >= 0
    /\ r.pc = "complete"
    /\ r.raw_data = <<>>

\* C11: a fetch that returns zero records takes the run straight to its
\* complete_run, which records status "success", records_processed 0 and no
\* error message; neither that fetch nor any later step of the run writes a
\* raw table or the canonical table.
C11_EmptyFetchIsSuccess ==
    [][\A p \in Procs :
          /\ (/\ proc[p].pc = "fetch"
              /\ proc'[p].pc # "fetch"
              /\ proc'[p].raw_data = <<>>
              /\ proc'[p].pc # "idle")
             => /\ EmptyFetched(proc'[p])
                /\ UNCHANGED <<raw, unified>>
          /\ (EmptyFetched(proc[p]) /\ proc'[p].pc = "returned")
             => /\ UNCHANGED <<raw, unified>>
                /\ get_checkpoint(checkpoints', proc[p].src) # None
                /\ get_checkpoint(checkpoints', proc[p].src)[1].status = "success"
                /\ get_checkpoint(checkpoints', proc[p].src)[1].records_processed = 0
                /\ get_checkpoint(checkpoints', proc[p].src)[1].error_message = None]_vars

\* The second run of a source fetched nothing and has returned: the
\* checkpoint counts 0 while the rows of the first run are still stored.
C11_Witness ==
    /\ proc[1].pc = "returned"
    /\ ~proc[1].skipped
    /\ proc[1].raw_data = <<>>
    /\ proc[1].fetch_error = None
    /\ raw[proc[1].src] # <<>>
    /\ unified # <<>>
    /\ Ckpt(proc[1].src) # None
    /\ Ckpt(proc[1].src)[1].status = "success"
    /\ Ckpt(proc[1].src)[1].records_processed = 0

\* The record is stored: the table has a row with its natural key, holding
\* the non-key fields of the last record of the batch with that key.
Stored(table, data_list, k) ==
    \E n \in 1..Len(table) :
        /\ Key(table[n]) = Key(data_list[k])
        /\ NonKeyFields(table[n]) = NonKeyFields(data_list[LastWithKey(data_list, data_list[k])])

\* C12: a run that fetched a non-empty batch and whose loads both succeeded
\* ends with checkpoint status "success", no error message and
\* records_processed equal to the number of records transform_batch gives for
\* the fetched batch, each of which is stored in the canonical table.
C12_CleanRunCounts ==
    [][\A p \in Procs :
          (/\ proc[p].idx >= 0
           /\ proc[p].pc = "complete"
           /\ proc[p].raw_data # <<>>
           /\ proc'[p].pc = "returned")
          => /\ get_checkpoint(checkpoints', proc[p].src) # None
             /\ get_checkpoint(checkpoints', proc[p].src)[1].status = "success"
             /\ get_checkpoint(checkpoints', proc[p].src)[1].error_message = None
             /\ get_checkpoint(checkpoints', proc[p].src)[1].records_processed
                   = Len(transform_batch(proc[p].src, proc[p].raw_data))
             /\ \A k \in 1..Len(transform_batch(proc[p].src, proc[p].raw_data)) :
                   Stored(unified', transform_batch(proc[p].src, proc[p].raw_data), k)]_vars

\* A run of two fetched records has returned with both stored and counted.
C12_Witness ==
    /\ proc[1].pc = "returned"
    /\ proc[1].exc = None
    /\ Len(proc[1].raw_data) = 2
    /\ proc[1].raw_data[1].coin_id # proc[1].raw_data[2].coin_id
    /\ Len(unified) = 2
    /\ Ckpt(proc[1].src) # None
    /\ Ckpt(proc[1].src)[1].status = "success"
    /\ Ckpt(proc[1].src)[1].records_processed = 2

\* The steps of run_source in order: each pair is a position in the code and
\* the position that may follow it.
RunEdges ==
    { <<"idle", "guard">>, <<"guard", "start_run">>, <<"guard", "returned">>,
      <<"start_run", "fetch">>, <<"fetch", "load_raw">>, <<"fetch", "complete">>,
      <<"load_raw", "transform">>, <<"load_raw", "except">>,
      <<"transform", "load_unified">>, <<"transform", "complete">>,
      <<"load_unified", "load_unified">>, <<"load_unified", "complete">>,
      <<"load_unified", "except">>, <<"complete", "returned">>,
      <<"except", "returned">>, <<"returned", "idle">> }

IsSuffix(s, t) ==
    /\ Len(s) <= Len(t)
    /\ SubSeq(t, Len(t) - Len(s) + 1, Len(t)) = s

\* C13: a run moves through guard, start_run, fetch, load-raw, transform,
\* load-canonical and complete_run in this order, leaving the order only to
\* return (guard refused, nothing fetched) or to record a failure; start_run
\* follows a guard that found the source not running, the transform and the
\* canonical load follow a raw load that stored the whole batch without an
\* error, and the checkpoint becomes "success" only in the complete_run that
\* follows the commit of the canonical batch.
C13_StepOrder ==
    [][\A p \in Procs :
          /\ (proc'[p].pc # proc[p].pc /\ proc'[p].pc # "idle")
             => <<proc[p].pc, proc'[p].pc>> \in RunEdges
          /\ (proc'[p].idx >= 0 /\ proc'[p].pc = "start_run")
             => ~is_source_running(checkpoints, proc'[p].src)
          /\ (proc'[p].idx >= 0 /\ proc'[p].pc \in {"transform", "load_unified"})
             => /\ proc'[p].exc = None
                /\ proc'[p].raw_data # <<>>
                /\ IsSuffix(proc'[p].raw_data, raw'[proc'[p].src])
          /\ (/\ proc[p].idx >= 0
              /\ proc[p].pc # "idle"
              /\ get_checkpoint(checkpoints', proc[p].src) # Ckpt(proc[p].src)
              /\ get_checkpoint(checkpoints', proc[p].src)[1].status = "success")
             => /\ proc[p].pc = "complete"
                /\ proc[p].exc = None
                /\ proc[p].pending = <<>>
                /\ proc[p].i = Len(proc[p].unified_data)
                /\ \A k \in 1..Len(proc[p].unified_data) :
                      Stored(unified, proc[p].unified_data, k)]_vars

\* A run whose raw load failed has returned: nothing was transformed, no
\* canonical statement was executed and the checkpoint is "failure".
C13_Witness ==
    /\ proc[1].pc = "returned"
    /\ proc[1].exc = Some("raw load failed")
    /\ Len(proc[1].raw_data) = 2
    /\ proc[1].unified_data = <<>>
    /\ proc[1].i = 0
    /\ unified = <<>>
    /\ Ckpt(proc[1].src) # None
    /\ Ckpt(proc[1].src)[1].status = "failure"

\* The status of a source's checkpoint in a table, "absent" without one.
StatusIn(table, source) ==
    IF get_checkpoint(table, source) = None THEN "absent"
    ELSE get_checkpoint(table, source)[1].status

StatusEdges ==
    { <<"absent", "running">>, <<"running", "success">>, <<"running", "failure">>,
      <<"success", "running">>, <<"failure", "running">> }

IsStartRun(source) ==
    \/ calls' = calls + 1 /\ proc'[1].op = "start_run" /\ proc'[1].src = source
    \/ \E p \in Procs : proc[p].pc = "start_run" /\ proc[p].src = source
                        /\ proc'[p].pc = "fetch"

\* The step is a complete_run on the source: called on its own, or by a run.
IsCompleteRun(source) ==
    \/ calls' = calls + 1 /\ proc'[1].op = "complete_run" /\ proc'[1].src = source
    \/ \E p \in Procs : proc[p].pc \in {"complete", "except"} /\ proc[p].src = source
                        /\ proc'[p].pc = "returned"

AtMostOneCheckpoint == \A source \in Sources : Cardinality(RowsOf(checkpoints, source)) <= 1

\* C15: the table never holds two checkpoints of one source; a checkpoint
\* that exists is still there after every step; a checkpoint appears only in
\* a start_run for its source and changes only in a start_run or a
\* complete_run for its source.
C15_OneCheckpointPerSource ==
    /\ []AtMostOneCheckpoint
    /\ [][\A source \in Sources :
             /\ get_checkpoint(checkpoints, source) # None
                => get_checkpoint(checkpoints', source) # None
             /\ (get_checkpoint(checkpoints, source) = None
                 /\ get_checkpoint(checkpoints', source) # None)
                => IsStartRun(source)
             /\ get_checkpoint(checkpoints', source) # get_checkpoint(checkpoints, source)
                => IsStartRun(source) \/ IsCompleteRun(source)]_vars

\* start_run was called for a source whose run had completed before: the
\* one checkpoint of the source was rewritten, no second one was added.
C15_Witness ==
    /\ calls = 2
    /\ proc[1].op = "start_run"
    /\ Len(checkpoints) = 1
    /\ checkpoints[1].source = proc[1].src
    /\ checkpoints[1].status = "running"
    /\ checkpoints[1].duration_seconds # None
    /\ checkpoints[1].records_processed > 0

\* The step is a call of start_run / complete_run made on its own.
StartRunCalled == calls' = calls + 1 /\ proc'[1].op = "start_run"

CompleteRunCalled == calls' = calls + 1 /\ proc'[1].op = "complete_run"

\* The position of the source's checkpoint in the table.
RowOf(table, source) == CHOOSE i \in RowsOf(table, source) : TRUE

\* C16: start_run(source) on a table without a checkpoint of the source
\* appends one with status "running", the current time, no error message and
\* a zero count; on a table with one it rewrites that row in place to status
\* "running", the current time and no error message, keeping its source,
\* count and duration; no other row changes.
C16_StartRunResets ==
    [][StartRunCalled =>
          LET source == proc'[1].src
          IN  IF get_checkpoint(checkpoints, source) = None
              THEN /\ Len(checkpoints') = Len(checkpoints) + 1
                   /\ SubSeq(checkpoints', 1, Len(checkpoints)) = checkpoints
                   /\ checkpoints'[Len(checkpoints')] =
                         [source |-> source, last_run_timestamp |-> clock,
                          status |-> "running", records_processed |-> 0,
                          duration_seconds |-> None, error_message |-> None]
              ELSE /\ Len(checkpoints') = Len(checkpoints)
                   /\ \A i \in 1..Len(checkpoints) :
                         IF i = RowOf(checkpoints, source)
                         THEN /\ checkpoints'[i].source = source
                              /\ checkpoints'[i].status = "running"
                              /\ checkpoints'[i].last_run_timestamp = clock
                              /\ checkpoints'[i].last_run_timestamp >= checkpoints[i].last_run_timestamp
                              /\ checkpoints'[i].error_message = None
                              /\ checkpoints'[i].records_processed = checkpoints[i].records_processed
                              /\ checkpoints'[i].duration_seconds = checkpoints[i].duration_seconds
                         ELSE checkpoints'[i] = checkpoints[i]]_vars

\* start_run found the checkpoint of a failed run, with its error message
\* and count, and has reset it.
C16_Witness ==
    /\ proc[1].op = "start_run"
    /\ proc[1].args[1] # None
    /\ proc[1].args[1][1].status = "failure"
    /\ proc[1].args[1][1].error_message = Some("timeout")
    /\ proc[1].args[1][1].records_processed = 1
    /\ proc[1].args[1][1].last_run_timestamp = 0
    /\ clock = 1
    /\ Len(checkpoints) = 1
    /\ checkpoints[1].status = "running"
    /\ checkpoints[1].error_message = None
    /\ checkpoints[1].records_processed = 1
    /\ checkpoints[1].last_run_timestamp = 1

\* C17: complete_run(source, n, d, success, e) on a table with a checkpoint
\* of the source leaves that checkpoint with records_processed n and
\* duration_seconds d, and with status "success" and no error message when
\* success is true and no error was passed, with status "failure" and
\* error_message e when success is false.
C17_CompleteRunRecords ==
    [][(CompleteRunCalled /\ get_checkpoint(checkpoints, proc'[1].src) # None) =>
          LET after == get_checkpoint(checkpoints', proc'[1].src)
              a == proc'[1].args
          IN  /\ after # None
              /\ after[1].records_processed = a[1]
              /\ after[1].duration_seconds = Some(a[2])
              /\ (a[3] /\ a[4] = None) => /\ after[1].status = "success"
                                          /\ after[1].error_message = None
              /\ ~a[3] => /\ after[1].status = "failure"
                          /\ after[1].error_message = a[4]]_vars

\* complete_run recorded the failure of a started run, with its count,
\* duration and error message.
C17_Witness ==
    /\ calls = 2
    /\ proc[1].op = "complete_run"
    /\ proc[1].args = <<MaxBatch, 1, FALSE, Some("timeout")>>
    /\ Len(checkpoints) = 1
    /\ checkpoints[1].source = proc[1].src
    /\ checkpoints[1].status = "failure"
    /\ checkpoints[1].records_processed = MaxBatch
    /\ checkpoints[1].duration_seconds = Some(1)
    /\ checkpoints[1].error_message = Some("timeout")

\* C18: complete_run for a source without a checkpoint returns to its
\* caller and leaves the table of checkpoints as it was: no row is added and
\* no row of another source is changed.
C18_CompleteRunWithoutCheckpoint ==
    [][(CompleteRunCalled /\ get_checkpoint(checkpoints, proc'[1].src) = None) =>
          /\ checkpoints' = checkpoints
          /\ get_checkpoint(checkpoints', proc'[1].src) = None
          /\ proc'[1].pc = "idle"
          /\ proc'[1].exc = None]_vars

\* complete_run was called for a source that was never started while another
\* source's run is in progress: that checkpoint is the only one, unchanged.
C18_Witness ==
    /\ calls = 2
    /\ proc[1].op = "complete_run"
    /\ proc[1].args = <<MaxBatch, 1, FALSE, Some("timeout")>>
    /\ get_checkpoint(checkpoints, proc[1].src) = None
    /\ Len(checkpoints) = 1
    /\ checkpoints[1].status = "running"
    /\ checkpoints[1].records_processed = 0

\* Some row of the table is a checkpoint of the source with status "running".
HasRunningRow(table, source) ==
    \E i \in 1..Len(table) : table[i].source = source /\ table[i].status = "running"

\* C19: is_source_running(source) is true exactly when the table holds a
\* checkpoint of the source with status "running"; it is true after a
\* start_run(source), false after a complete_run(source) whatever outcome was
\* recorded, and unchanged by every step that is neither.
C19_IsRunning ==
    /\ [](\A source \in Sources :
             is_source_running(checkpoints, source) <=> HasRunningRow(checkpoints, source))
    /\ [][\A source \in Sources :
             /\ (StartRunCalled /\ proc'[1].src = source)
                => is_source_running(checkpoints', source)
             /\ (CompleteRunCalled /\ proc'[1].src = source)
                => ~is_source_running(checkpoints', source)
             /\ ~((StartRunCalled \/ CompleteRunCalled) /\ proc'[1].src = source)
                => (is_source_running(checkpoints', source)
                       <=> is_source_running(checkpoints, source))]_vars

\* A run of one source was started and completed as a failure while another
\* source's run, started before, is still in progress.
C19_Witness ==
    /\ calls = 3
    /\ proc[1].op = "complete_run"
    /\ ~proc[1].args[3]
    /\ Len(checkpoints) = 2
    /\ checkpoints[2].source = proc[1].src
    /\ checkpoints[2].status = "failure"
    /\ ~is_source_running(checkpoints, checkpoints[2].source)
    /\ is_source_running(checkpoints, checkpoints[1].source)
    /\ \E source \in Sources : get_checkpoint(checkpoints, source) = None
                               /\ ~is_source_running(checkpoints, source)

\* C20: one _make_request sends at most max_retries requests to the
\* provider, calls session.get at most max_retries times, makes no attempt
\* after the first one that succeeded, and returns exactly when its last
\* attempt succeeded (it raises otherwise).
C20_AtMostMaxRetriesAttempts ==
    \A p \in Procs :
        proc[p].op = "make_request" =>
            LET gets == proc[p].args[1]
                r == proc[p].args[2]
            IN  /\ proc[p].args[3] <= max_retries
                /\ r.attempts \in 1..max_retries
                /\ \A i \in 1..r.attempts : gets[i].response = "ok" => i = r.attempts
                /\ r.raised = None <=> gets[r.attempts].response = "ok"

\* The sleeps of one kind made by a call, in the order they were made.
SleepsOf(out, kind) == SelectSeq(out.sleeps, LAMBDA sl : sl.kind = kind)

\* The delay _make_request holds before its k-th retry: the initial delay
\* after k - 1 updates.
RECURSIVE DelayBefore(_)
DelayBefore(k) == IF k = 1 THEN initial_retry_delay ELSE next_delay(DelayBefore(k - 1))

\* min(initial_retry_delay * 2^(k-1), max_retry_delay)
Schedule(k) == Min(initial_retry_delay * 2 ^ (k - 1), max_retry_delay)

WithRateLimit(responses, i) == [responses EXCEPT ![i] = "429"]

\* The attempts, backoff sleeps and outcome (return or raise) of two calls
\* are the same.
SameHandling(a, b) ==
    /\ a.attempts = b.attempts
    /\ SleepsOf(a, "backoff") = SleepsOf(b, "backoff")
    /\ (a.raised = None) <=> (b.raised = None)

C23_PauseAfterSuccess ==
    \A p \in Procs :
        proc[p].op = "make_request_on" =>
            LET responses == proc[p].args[1]
                out == proc[p].args[2]
                pauses == SleepsOf(out, "rate_limit")
            IN  /\ \A i \in 1..Len(out.sleeps) :
                      responses[i] # "ok" => out.sleeps[i].kind = "backoff"
                /\ out.raised = None =>
                      /\ responses[out.attempts] = "ok"
                      /\ pauses = <<[kind |-> "rate_limit", delay |-> rate_limit_delay]>>
                      /\ Len(out.sleeps) = out.attempts
                      /\ out.sleeps[out.attempts].kind = "rate_limit"
                /\ out.raised # None =>
                      /\ pauses = <<>>
                      /\ \A i \in 1..out.attempts : responses[i] # "ok"

\* A request failed once and then succeeded: one backoff sleep, then one
\* rate_limit_delay pause before the return.
C23_Witness ==
    /\ proc[1].op = "make_request_on"
    /\ proc[1].args[1][1] = "error"
    /\ proc[1].args[1][2] = "ok"
    /\ proc[1].args[2].raised = None
    /\ proc[1].args[2].sleeps = <<[kind |-> "backoff", delay |-> initial_retry_delay],
                                   [kind |-> "rate_limit", delay |-> rate_limit_delay]>>

\* Whether an item of a retrieved batch is well-formed: its raw schema can be
\* built from it.
WellFormed(source, item) == IF source = "csv" THEN CsvRowParses(item) ELSE TickerParses(item)

\* The raw record of a well-formed item.
RawRecordOf(source, item, now) ==
    CASE source = "csv" -> RawCSVSchema(item, now)
      [] source = "coingecko" -> RawCoinGeckoSchema(item, now)
      [] source = "coinpaprika" -> RawCoinPaprikaSchema(item, now)

\* The positions of the well-formed items of a batch, ascending.
WellFormedAt(source, items) ==
    SelectSeq([i \in 1..Len(items) |-> i], LAMBDA i : WellFormed(source, items[i]))

Malformed(source, items) == {i \in 1..Len(items) : ~WellFormed(source, items[i])}

\* C24: a fetch whose batch of n items was retrieved returns without raising
\* exactly the raw records of the n - m well-formed items, in their order in
\* the batch, m being the number of malformed items.
C24_MalformedSkipped ==
    \A p \in Procs :
        (proc[p].op = "fetch" /\ proc[p].fetch_error = None) =>
            LET source == proc[p].src
                items == proc[p].args[1]
                st == proc[p].args[2]
                at == WellFormedAt(source, items)
            IN  /\ proc[p].exc = None
                /\ Len(proc[p].raw_data) = Len(items) - Cardinality(Malformed(source, items))
                /\ Len(proc[p].raw_data) = Len(at)
                /\ \A j \in 1..Len(at) :
                      proc[p].raw_data[j] = RawRecordOf(source, items[at[j]], st[at[j]])

\* A CSV file of two rows, the first malformed, gave the one record of the
\* second row.
C24_Witness ==
    /\ proc[1].op = "fetch"
    /\ proc[1].src = "csv"
    /\ proc[1].fetch_error = None
    /\ Len(proc[1].args[1]) = 2
    /\ Malformed("csv", proc[1].args[1]) = {1}
    /\ Len(proc[1].raw_data) = 1
    /\ proc[1].raw_data[1].coin_id = proc[1].args[1][2].coin_id[1]

\* The positions of the items of a list whose mapping succeeds, ascending.
MappedAt(source, raw_data_list) ==
    SelectSeq([i \in 1..Len(raw_data_list) |-> i],
              LAMBDA i : TransformSucceeds(source, raw_data_list[i]))

\* C25: a batch transform returns without raising, in input order, exactly
\* one canonical record for each item whose mapping succeeds and none for an
\* item whose mapping fails; the output is never longer than the input, and
\* the records of the other items are those the list without the failing
\* items gives.
C25_BatchTransform ==
    \A p \in Procs :
        proc[p].op = "transform_batch" =>
            LET source == proc[p].src
                input == proc[p].args[1]
                output == proc[p].unified_data
                at == MappedAt(source, input)
            IN  /\ proc[p].exc = None
                /\ Len(output) <= Len(input)
                /\ Len(output) = Len(at)
                /\ \A j \in 1..Len(at) : output[j] = transform_one(source, input[at[j]])
                /\ output = transform_batch(source, [j \in 1..Len(at) |-> input[at[j]]])

\* A list of two items, the first one no raw record, gave the one canonical
\* record of the second.
C25_Witness ==
    /\ proc[1].op = "transform_batch"
    /\ Len(proc[1].args[1]) = 2
    /\ MappedAt(proc[1].src, proc[1].args[1]) = <<2>>
    /\ Len(proc[1].unified_data) = 1
    /\ proc[1].unified_data[1].coin_id = proc[1].args[1][2].coin_id

\* The provider's field a canonical numeric field is taken from.
ProviderField(source, field) ==
    IF source = "coingecko" /\ field = "price_usd" THEN "current_price"
    ELSE IF source = "coingecko" /\ field = "volume_24h" THEN "total_volume"
    ELSE field

NumericFields == {"price_usd", "market_cap", "volume_24h"}

\* C26: the canonical record of a raw record keeps its coin_id and
\* ingested_at, carries the tag of the provider, takes price_usd, market_cap
\* and volume_24h from the provider's fields (current_price and total_volume
\* for coingecko), and has None, never zero, where the raw field is None.
C26_MappingPreserves ==
    \A p \in Procs :
        proc[p].op = "transform_batch" =>
            LET source == proc[p].src
                input == proc[p].args[1]
                output == proc[p].unified_data
                at == MappedAt(source, input)
            IN  \A j \in 1..Len(output) :
                    LET r == input[at[j]]
                        u == output[j]
                    IN  /\ u.coin_id = r.coin_id
                        /\ u.ingested_at = r.ingested_at
                        /\ u.source = source
                        /\ \A f \in NumericFields :
                              /\ u[f] = r[ProviderField(source, f)]
                              /\ r[ProviderField(source, f)] = None
                                    => (u[f] = None /\ u[f] # Some(0))

\* A coingecko record with a price and one with no numbers at all were
\* mapped: the first keeps its current_price as price_usd, the second has
\* None in every numeric field.
C26_Witness ==
    /\ proc[1].op = "transform_batch"
    /\ proc[1].src = "coingecko"
    /\ Len(proc[1].unified_data) = 2
    /\ proc[1].args[1][1].current_price = Some(100)
    /\ proc[1].unified_data[1].price_usd = Some(100)
    /\ proc[1].args[1][2].total_volume = None
    /\ \A f \in NumericFields : proc[1].unified_data[2][f] = None
    /\ proc[1].unified_data[2].ingested_at = proc[1].args[1][2].ingested_at

\* The sources whose checkpoint has status "running" in a table.
Running(table) == {source \in Sources : is_source_running(table, source)}

\* The sources run_all calls before the given one.
Before(source) ==
    {SourceOrder[k] : k \in {j \in 1..Len(SourceOrder) :
                                \E m \in j + 1..Len(SourceOrder) : SourceOrder[m] = source}}

\* C27: during one run_all, entered with no checkpoint "running", at most
\* one source's checkpoint is "running" at any time, and when a source's
\* checkpoint is set to "running" the checkpoint of every source before it
\* has reached "success" or "failure".
C27_OneRunningAtATime ==
    /\ [](Cardinality(Running(checkpoints)) <= 1)
    /\ [][\A source \in Sources :
             (source \notin Running(checkpoints) /\ source \in Running(checkpoints')) =>
                 /\ Running(checkpoints) = {}
                 /\ \A earlier \in Before(source) :
                       /\ get_checkpoint(checkpoints, earlier) # None
                       /\ get_checkpoint(checkpoints, earlier)[1].status
                             \in {"success", "failure"}]_vars

\* run_all is fetching for its second source, whose checkpoint is "running",
\* after the run of the first one ended in failure.
C27_Witness ==
    /\ proc[1].pc = "fetch"
    /\ proc[1].idx = 2
    /\ Len(checkpoints) = 2
    /\ checkpoints[1].status = "failure"
    /\ checkpoints[2].status = "running"
    /\ Running(checkpoints) = {SourceOrder[2]}

\* The process is inside a run it has started: past start_run, not yet past
\* complete_run.
Started(p) ==
    proc[p].pc \in {"fetch", "load_raw", "transform", "load_unified", "complete", "except"}

\* C28: the running-guard is a read of the committed checkpoint and nothing
\* more: a process passes it exactly when the table it reads holds no
\* "running" checkpoint of the source, whatever the other process is doing,
\* every process that passed it read "not running", and its start_run then
\* goes through on the checkpoint it finds even when another process has set
\* it to "running" in between.  Two overlapping invocations for one source
\* can therefore both be past start_run, fetching and loading, at once.
C28_GuardNotAtomic ==
    /\ [](\A p \in Procs :
             proc[p].pc \in {"start_run", "start_run_commit"} \/ Started(p)
                 => ~proc[p].skipped)
    /\ [][\A p \in Procs :
             /\ (proc[p].pc = "guard" /\ proc'[p].pc # "guard") =>
                    /\ proc'[p].pc = "start_run"
                          <=> ~is_source_running(checkpoints, proc[p].src)
                    /\ proc'[p].pc = "returned"
                          <=> is_source_running(checkpoints, proc[p].src)
             /\ (proc[p].pc = "start_run_commit" /\ proc'[p].pc # "start_run_commit"
                    /\ proc[p].args[1] # None) =>
                    /\ proc'[p].pc = "fetch"
                    /\ is_source_running(checkpoints', proc[p].src)]_vars

\* Both processes read "not running" and called start_run for the same
\* source; the first has written the raw and the canonical store and has not
\* yet completed, the second has written the raw store and holds canonical
\* writes in its open transaction.
C28_Witness ==
    /\ proc[1].src = RaceSource /\ proc[2].src = RaceSource
    /\ ~proc[1].skipped /\ ~proc[2].skipped
    /\ proc[1].pc = "complete" /\ proc[1].count > 0
    /\ proc[2].pc = "load_unified" /\ proc[2].pending # <<>>
    /\ Len(raw[RaceSource]) = Len(proc[1].raw_data) + Len(proc[2].raw_data)
    /\ unified # <<>>
    /\ Len(checkpoints) = 1
    /\ checkpoints[1].status = "running"

\* C29: under every interleaving of two invocations the canonical table
\* holds at most one row per natural key and the checkpoint table at most one
\* row per source; a start_run that found no checkpoint and commits after the
\* other process has added one is refused by the unique constraint and leaves
\* the table as it was.
C29_UniqueUnderRaces ==
    /\ [](/\ \A i \in 1..Len(unified) : Cardinality(KeyRows(unified, unified[i])) = 1
          /\ AtMostOneCheckpoint)
    /\ [][\A p \in Procs :
             (/\ proc[p].pc = "start_run_commit"
              /\ proc'[p].pc # "start_run_commit"
              /\ proc[p].args[1] = None
              /\ RowsOf(checkpoints, proc[p].src) # {}) =>
                 /\ checkpoints' = checkpoints
                 /\ proc'[p].exc = Some("IntegrityError")]_vars

\* Both processes found no checkpoint of the source in start_run; the first
\* added one and is loading, the commit of the second was refused.
C29_Witness ==
    /\ proc[1].src = RaceSource /\ proc[2].src = RaceSource
    /\ proc[1].pc = "load_unified"
    /\ proc[1].args = <<None>>
    /\ proc[2].pc = "except_inactive"
    /\ proc[2].args = <<None>>
    /\ proc[2].exc = Some("IntegrityError")
    /\ Len(checkpoints) = 1
    /\ checkpoints[1].source = RaceSource

\* C30: once the process was killed between start_run and complete_run of a
\* source, the checkpoint of the source is "running" after every later step:
\* later runs of the source and of the other sources, the passing of time
\* and further kills leave it "running" with the timestamp of the killed
\* run, and only a start_run for the source could write it again.
C30_StaysRunning ==
    [][\A source \in Sources :
          Orphaned(source) =>
              /\ is_source_running(checkpoints', source)
              /\ \/ get_checkpoint(checkpoints', source) = get_checkpoint(checkpoints, source)
                 \/ \E p \in Procs : proc[p].pc = "start_run" /\ proc[p].src = source
                                       /\ proc'[p].pc = "fetch"]_vars

\* The process was killed after start_run of a source; a later run of the
\* same source has been skipped and the checkpoint is still "running", with
\* the timestamp of the killed run, while the clock has moved on.
C30_Witness ==
    /\ calls = 2
    /\ proc[1].pc = "returned"
    /\ proc[1].skipped
    /\ Orphaned(proc[1].src)
    /\ Ckpt(proc[1].src)[1].last_run_timestamp < clock

\* The table `before` is the beginning of the table `after`.
IsPrefix(before, after) ==
    /\ Len(before) <= Len(after)
    /\ SubSeq(after, 1, Len(before)) = before

\* C31: no step of a run removes stored data: every raw table keeps its rows
\* and may get more at its end, every canonical row stays in its place with
\* its natural key, and a canonical row changes only in the commit of a
\* canonical load that holds a record with the row's natural key.
C31_NothingRemoved ==
    [][/\ \A source \in Sources : IsPrefix(raw[source], raw'[source])
       /\ Len(unified) <= Len(unified')
       /\ TableKeys(unified) \subseteq TableKeys(unified')
       /\ \A k \in 1..Len(unified) :
             /\ Key(unified'[k]) = Key(unified[k])
             /\ unified'[k] # unified[k] =>
                   \E p \in Procs :
                       /\ proc[p].pc = "load_unified"
                       /\ proc'[p].pc # "load_unified"
                       /\ Key(unified[k]) \in BatchKeys(proc[p].pending)]_vars

\* A second run of a source has loaded its batch: the rows of the first run
\* are still the first rows of the raw and of the canonical table.
C31_Witness ==
    /\ calls = 2
    /\ proc[1].pc = "complete"
    /\ proc[1].count > 0
    /\ Len(raw[proc[1].src]) > Len(proc[1].raw_data)
    /\ Len(unified) > Len(proc[1].unified_data)
    /\ unified[1].source = proc[1].src
    /\ raw[proc[1].src][1].ingested_at = unified[1].ingested_at

\* The canonical rows of a source, in table order.
RowsOfSource(table, source) == SelectSeq(table, LAMBDA r : r.source = source)

\* C32: while the checkpoint of a source is "running" with no run of it in
\* progress, every step leaves it so: a run of the source, called on its own
\* or by run_all, returns from the guard without start_run, the checkpoint
\* row does not change, and nothing is added to the raw table of the source
\* or to its canonical rows.
C32_NeverRecovered ==
    [][\A source \in Sources :
          Orphaned(source) =>
              /\ Orphaned(source)'
              /\ get_checkpoint(checkpoints', source) = get_checkpoint(checkpoints, source)
              /\ raw'[source] = raw[source]
              /\ RowsOfSource(unified', source) = RowsOfSource(unified, source)
              /\ \A p \in Procs :
                    /\ (proc[p].pc = "guard" /\ proc[p].src = source
                          /\ proc'[p].pc \notin {"guard", "idle"}) =>
                            (proc'[p].pc = "returned" /\ proc'[p].skipped)
                    /\ proc'[p].src = source => proc'[p].pc \in {"guard", "returned"}]_vars

\* The process was killed in its run of the first source; started again, its
\* run_all has skipped that source and is fetching for the second one, and
\* the first source still has its "running" checkpoint and no data.
C32_Witness ==
    /\ calls = 2
    /\ proc[1].idx = 2
    /\ proc[1].pc = "fetch"
    /\ Orphaned(SourceOrder[1])
    /\ raw[SourceOrder[1]] = <<>>
    /\ RowsOfSource(unified, SourceOrder[1]) = <<>>
    /\ Len(checkpoints) = 2

Terminal == {"success", "failure"}

\* C33: in a process that is not killed, a run that has set its checkpoint
\* to "running" sets it to "success" or "failure" before it returns, whatever
\* happens in between; a checkpoint is "running" only while its run is in
\* progress, and when run_all has returned no checkpoint is "running".
C33_RunReachesTerminal ==
    /\ (\E source \in Sources : RunStarted(1, source))
          ~> (proc[1].pc = "returned" /\ StatusIn(checkpoints, proc[1].src) \in Terminal)
    /\ [](\A source \in Sources :
             is_source_running(checkpoints, source) => RunStarted(1, source))
    /\ [](\A p \in Procs :
             (proc[p].pc = "returned" /\ ~proc[p].skipped) =>
                 StatusIn(checkpoints, proc[p].src) \in Terminal)
    /\ []((calls > 0 /\ proc[1].pc = "idle") =>
             \A source \in Sources : StatusIn(checkpoints, source) # "running")

\* run_all has returned after an empty fetch, a failed raw load and a failed
\* canonical load: the three checkpoints are terminal.
C33_Witness ==
    /\ calls = 1
    /\ proc[1].pc = "idle"
    /\ Len(checkpoints) = 3
    /\ checkpoints[1].status = "success" /\ checkpoints[1].records_processed = 0
    /\ checkpoints[2].error_message = Some("raw load failed")
    /\ checkpoints[3].error_message = Some("unified load failed")
    /\ \A k \in 1..3 : checkpoints[k].status \in Terminal

\* The run of the process loaded its raw batch and its canonical load failed.
CanonicalLoadFailed(p) ==
    /\ proc[p].idx >= 0
    /\ proc[p].pc \in {"except", "returned"}
    /\ proc[p].exc = Some("unified load failed")

\* C34: a run whose raw load succeeded and whose canonical load failed
\* leaves its raw records at the end of the raw table and the canonical
\* table as it was before the load, and ends with status "failure" and
\* records_processed 0; a raw load appends its batch whatever the raw table
\* already holds, so the next run adds its raw records again.
C34_NoCrossStoreAtomicity ==
    /\ [](\A p \in Procs :
             CanonicalLoadFailed(p) =>
                 /\ proc[p].raw_data # <<>>
                 /\ IsSuffix(proc[p].raw_data, raw[proc[p].src])
                 /\ proc[p].pc = "returned" =>
                       /\ StatusIn(checkpoints, proc[p].src) = "failure"
                       /\ Ckpt(proc[p].src)[1].records_processed = 0
                       /\ Ckpt(proc[p].src)[1].error_message = proc[p].exc)
    /\ [][\A p \in Procs :
             /\ (proc[p].pc = "load_unified" /\ proc'[p].pc \in {"load_unified", "except"})
                    => (unified' = unified /\ raw' = raw)
             /\ (proc[p].pc = "load_raw" /\ proc'[p].pc = "transform")
                    => raw'[proc[p].src] = raw[proc[p].src] \o proc[p].raw_data]_vars

\* The canonical load of a first run failed; the second run of the source
\* has loaded its raw batch after the one of the first run, with the same
\* coin, and the canonical table is still empty.
C34_Witness ==
    /\ calls = 2
    /\ proc[1].pc = "transform"
    /\ Len(proc[1].raw_data) = 1
    /\ Len(raw[proc[1].src]) = 2
    /\ raw[proc[1].src][1].coin_id = raw[proc[1].src][2].coin_id
    /\ unified = <<>>
    /\ Len(checkpoints) = 1
    /\ checkpoints[1].records_processed = 0

\* The raw rows of its source a canonical row can have been derived from.
RawRowsOf(u) ==
    {j \in 1..Len(raw[u.source]) :
        /\ raw[u.source][j].coin_id = u.coin_id
        /\ raw[u.source][j].ingested_at = u.ingested_at}

\* C35: every canonical row has a raw row of the same source with the same
\* coin_id and ingested_at.
C35_CanonicalHasRaw ==
    \A i \in 1..Len(unified) :
        /\ unified[i].source \in Sources
        /\ RawRowsOf(unified[i]) # {}

\* A run has committed canonical rows of two coins, each with its raw row.
C35_Witness ==
    /\ proc[1].pc = "returned"
    /\ Len(unified) = 2
    /\ unified[1].coin_id # unified[2].coin_id
    /\ \A i \in 1..2 : RawRowsOf(unified[i]) # {}

\* C36: a checkpoint whose status is "running" or "success" has no
\* error_message; an error_message is stored only with status "failure".
C36_ErrorOnlyOnFailure ==
    \A i \in 1..Len(checkpoints) :
        /\ checkpoints[i].status \in {"running", "success"} => checkpoints[i].error_message = None
        /\ checkpoints[i].error_message # None => checkpoints[i].status = "failure"

\* A second run of a source whose first run failed in the canonical load:
\* start_run has reset the checkpoint to "running" without error_message.
C36_Witness ==
    /\ calls = 2
    /\ proc[1].pc = "fetch"
    /\ raw[proc[1].src] # <<>>
    /\ unified = <<>>
    /\ Len(checkpoints) = 1
    /\ checkpoints[1].source = proc[1].src
    /\ checkpoints[1].status = "running"
    /\ checkpoints[1].duration_seconds # None
    /\ checkpoints[1].error_message = None

\* The canonical load of the process commits in this step.
CommitsCanonical(p) ==
    /\ proc[p].idx >= 0
    /\ proc[p].pc = "load_unified"
    /\ proc'[p].pc = "complete"

\* The clock advanced strictly since the earlier fetches of the source:
\* every record of the batch is stamped later than every stored row of it.
StampedLater(p) ==
    \A i \in 1..Len(proc[p].unified_data), j \in 1..Len(unified) :
        unified[j].source = proc[p].src =>
            unified[j].ingested_at < proc[p].unified_data[i].ingested_at

\* No two records of the batch have the same coin_id and stamp.
DistinctInBatch(p) ==
    \A a, b \in 1..Len(proc[p].unified_data) :
        a < b => \/ proc[p].unified_data[a].coin_id # proc[p].unified_data[b].coin_id
                 \/ proc[p].unified_data[a].ingested_at # proc[p].unified_data[b].ingested_at

\* Every record of the batch is inserted as a row of its own: the overwrite
\* branch of the upsert is not taken, and the old rows stay as they were.
AddsEveryRecord(p) ==
    /\ Len(unified') = Len(unified) + Len(proc[p].unified_data)
    /\ IsPrefix(unified, unified')
    /\ \A i \in 1..Len(proc[p].unified_data) :
          unified'[Len(unified) + i] = proc[p].unified_data[i]

\* C37: records are stamped one by one as they are built; a run whose
\* records are all stamped later than the stored rows of its source, and
\* whose batch has no two records with the same coin_id and stamp, adds one
\* new canonical row per surviving record and never overwrites a row, also
\* when the provider data is unchanged.
C37_AdvancingClockAddsRows ==
    [][\A p \in Procs :
         (CommitsCanonical(p) /\ StampedLater(p) /\ DistinctInBatch(p))
            => AddsEveryRecord(p)]_vars

\* The statement without the condition on the batch: the stamps of a run
\* being later than those of the earlier runs is enough.
C37_Original ==
    [][\A p \in Procs :
         (CommitsCanonical(p) /\ StampedLater(p)) => AddsEveryRecord(p)]_vars

\* Two runs of one source fetched the same data at different times: the
\* second run added a row beside the one of the first run.
C37_Witness ==
    /\ calls = 2
    /\ proc[1].pc = "returned"
    /\ Len(unified) = 2
    /\ unified[1].source = unified[2].source
    /\ unified[1].ingested_at < unified[2].ingested_at
    /\ unified[2] = [unified[1] EXCEPT !.ingested_at = unified[2].ingested_at]
    /\ Len(checkpoints) = 1
    /\ checkpoints[1].status = "success"
    /\ checkpoints[1].records_processed = 1

\* C38: a call of start_run or complete_run for a source leaves the
\* checkpoint of every other source as it was; start_run on an existing
\* checkpoint keeps the records_processed and duration_seconds of the
\* previous run while the status is "running"; complete_run keeps
\* last_run_timestamp, so the field changes only in start_run of the source,
\* where it becomes the time of that start.
C38_ManagerFrame ==
    [][(StartRunCalled \/ CompleteRunCalled) =>
          LET x == proc'[1].src
              before == get_checkpoint(checkpoints, x)
              after == get_checkpoint(checkpoints', x)
          IN  /\ \A y \in Sources \ {x} :
                    get_checkpoint(checkpoints', y) = get_checkpoint(checkpoints, y)
              /\ (StartRunCalled /\ before # None) =>
                    /\ after # None
                    /\ after[1].status = "running"
                    /\ after[1].records_processed = before[1].records_processed
                    /\ after[1].duration_seconds = before[1].duration_seconds
              /\ StartRunCalled => after[1].last_run_timestamp = clock
              /\ CompleteRunCalled =>
                    IF before = None THEN after = None
                    ELSE /\ after # None
                         /\ after[1].last_run_timestamp = before[1].last_run_timestamp]_vars

\* With the checkpoint of another source in the table, start_run has reset
\* the checkpoint of a completed run: it is "running" and still shows the
\* count and duration of that run.
C38_Witness ==
    /\ proc[1].op = "start_run"
    /\ proc[1].args[1] # None
    /\ proc[1].args[1][1].status = "success"
    /\ Len(checkpoints) = 2
    /\ Ckpt(proc[1].src)[1].status = "running"
    /\ Ckpt(proc[1].src)[1].records_processed = MaxBatch
    /\ Ckpt(proc[1].src)[1].duration_seconds = Some(1)
    /\ Ckpt(proc[1].src)[1].last_run_timestamp = 1

\* The run of the csv source found its file missing or unreadable.
CsvUnreadable(p) ==
    /\ proc[p].idx >= 0
    /\ proc[p].src = "csv"
    /\ proc[p].fetch_error = Some("unreadable")

\* C39: a fetch from a CSV file that is missing or cannot be read gives an
\* empty list and raises nothing; the run of the csv source goes on to
\* complete_run with success, writes no data, and returns with checkpoint
\* status "success", records_processed 0 and no error message.
C39_UnreadableCsvIsSuccess ==
    /\ [](\A p \in Procs :
             CsvUnreadable(p) =>
                 /\ proc[p].raw_data = <<>>
                 /\ proc[p].exc = None
                 /\ proc[p].pc \in {"complete", "returned"}
                 /\ proc[p].pc = "returned" =>
                       /\ StatusIn(checkpoints, "csv") = "success"
                       /\ Ckpt("csv")[1].records_processed = 0
                       /\ Ckpt("csv")[1].error_message = None)
    /\ [][\A p \in Procs :
             (CsvUnreadable(p) \/ CsvUnreadable(p)') => UNCHANGED <<raw, unified>>]_vars

\* The csv run whose file was unreadable has returned with "success" and 0.
C39_Witness ==
    /\ CsvUnreadable(1)
    /\ proc[1].pc = "returned"
    /\ StatusIn(checkpoints, "csv") = "success"
    /\ Ckpt("csv")[1].records_processed = 0

\* C40: get_last_successful_run(source) gives the last_run_timestamp of the
\* source's checkpoint when that checkpoint exists with status "success",
\* and nothing in every other case: no checkpoint, status "running", status
\* "failure" (also when the run before the failed one succeeded).
C40_LastSuccessfulRun ==
    /\ [](\A source \in Sources :
             IF StatusIn(checkpoints, source) = "success"
             THEN get_last_successful_run(checkpoints, source)
                     = Some(Ckpt(source)[1].last_run_timestamp)
             ELSE get_last_successful_run(checkpoints, source) = None)
    /\ [][\A source \in Sources :
             (/\ get_last_successful_run(checkpoints, source) # None
              /\ StatusIn(checkpoints', source) \in {"running", "failure"})
                => get_last_successful_run(checkpoints', source) = None]_vars

\* A source succeeded, was started again and failed: the timestamp of the
\* failed run is stored and get_last_successful_run gives nothing.
C40_Witness ==
    /\ calls = 4
    /\ proc[1].op = "complete_run"
    /\ proc[1].args[3] = FALSE
    /\ Len(checkpoints) = 1
    /\ checkpoints[1].status = "failure"
    /\ checkpoints[1].last_run_timestamp = 1
    /\ checkpoints[1].duration_seconds = Some(0)
    /\ get_last_successful_run(checkpoints, proc[1].src) = None

====
